---- MODULE Spec2Model ----
(***************************************************************************)
(* A model of portage (src/main.go, the final revision of the program,     *)
(* lines 581-2447, and src/interactive.go).                                *)
(*                                                                         *)
(* Strings whose characters the code inspects (elapsed-time text, paths    *)
(* used in prefix tests) are sequences of one-character strings.           *)
(* Each specification below drives one part of the program; the variables  *)
(* of the other parts stay at their initial value.                         *)
(***************************************************************************)
EXTENDS Integers, Sequences, FiniteSets, TLC

VARIABLES
    etime,        \* formatUptime: the argument
    fmtResult,    \* formatUptime: the returned (label, seconds), or None
    lsofOutput,   \* a run: the socket listing, a sequence of lines
    mode,         \* a run: "main" (the default mode) or "unified"
    pc,           \* a run: the stage it is at
    ports,        \* a run: the records, in parse order
    idx,          \* a run: the record the resolver loop is at
    pathCache,    \* a run: pid -> working directory
    uptimeCache,  \* a run: pid -> uptime label
    uptimeSecondsCache, \* a run: pid -> uptime seconds
    cwdLookups,   \* the pids of the lsof -d cwd invocations of the run, in order
    uptimeLookups,\* the pids of the ps -o etime= invocations of the run, in order
    output,       \* a run: what it printed, or None
    degraded,     \* a run: the lookups that failed, as <<kind, pid>>, and <<"ledger", <<>>>>
    now,          \* the wall clock, in seconds
    portLog,      \* the discovery ledger file: its lines
    wsLog,        \* the workspace event ledger file: its lines
    lastOp,       \* per path, the kind of the last --log-close/--log-open that succeeded
    view,         \* what the last history view printed, with what it read
    written,      \* the entries logNewPorts has written to the discovery ledger, in order
    uInput,       \* the inputs shared by the runs of displayUnified compared
    uRuns,        \* the results of those runs, in order
    clsInput,     \* isUserPort: the record it is called on, or None
    clsResult,    \* isUserPort: what it returned, or None
    cli,          \* the last invocation: its flags, branch of main, exit code, or None
    writers,      \* the concurrent calls of logNewPorts: where each is, what it read
    ui,           \* the interactive session: its model, or None when none runs
    configFile,   \* the configuration file: the hidden "port-pid" keys it holds
    hiddenSince   \* the pairs hidden with h since the last u

uptimeVars == <<etime, fmtResult>>
mainVars == <<lsofOutput, mode, pc, ports, idx, pathCache, uptimeCache,
              uptimeSecondsCache, cwdLookups, uptimeLookups, output, degraded>>
ledgerVars == <<now, portLog, wsLog, lastOp, view, written>>
unifiedVars == <<uInput, uRuns>>
classVars == <<clsInput, clsResult>>
\* The variables of the parts that the first four specifications leave alone
cliVars == <<cli>>
writerVars == <<writers>>
uiVars == <<ui, configFile, hiddenSince>>
restVars == <<classVars, cliVars, writerVars, uiVars>>
vars == <<uptimeVars, mainVars, ledgerVars, unifiedVars, restVars>>

None == [none |-> TRUE]

(***************************************************************************)
(* String helpers (Go's strings and fmt packages, as used by the code).    *)
(***************************************************************************)
DigitChars == <<"0", "1", "2", "3", "4", "5", "6", "7", "8", "9">>

IsDigit(c) == \E i \in 1..10 : DigitChars[i] = c

DigitVal(c) == (CHOOSE i \in 1..10 : DigitChars[i] = c) - 1

\* strings.Contains(s, c) for a one-character c
Contains(s, c) == \E i \in 1..Len(s) : s[i] = c

\* strings.HasPrefix(s, prefix)
HasPrefix(s, prefix) ==
    /\ Len(prefix) <= Len(s)
    /\ SubSeq(s, 1, Len(prefix)) = prefix

\* strings.Split(s, sep) for a one-character sep: always at least one part
RECURSIVE Split(_, _)
Split(s, sep) ==
    IF ~Contains(s, sep) THEN <<s>>
    ELSE LET i == CHOOSE k \in 1..Len(s) :
                      s[k] = sep /\ \A j \in 1..(k - 1) : s[j] # sep
         IN  <<SubSeq(s, 1, i - 1)>> \o Split(SubSeq(s, i + 1, Len(s)), sep)

\* strconv.Itoa / fmt's %d for a non-negative integer
RECURSIVE Itoa(_)
Itoa(n) ==
    IF n < 10 THEN <<DigitChars[n + 1]>>
    ELSE Itoa(n \div 10) \o <<DigitChars[(n % 10) + 1]>>

\* The value of a run of decimal digits
RECURSIVE DigitsValue(_)
DigitsValue(s) ==
    IF s = <<>> THEN 0
    ELSE 10 * DigitsValue(SubSeq(s, 1, Len(s) - 1)) + DigitVal(s[Len(s)])

\* The longest prefix of s made of decimal digits
RECURSIVE LeadingDigits(_)
LeadingDigits(s) ==
    IF s = <<>> \/ ~IsDigit(s[1]) THEN <<>>
    ELSE <<s[1]>> \o LeadingDigits(Tail(s))

\* fmt.Sscanf(s, "%d", &v) on a variable holding 0: the leading decimal
\* digits are scanned; without a leading digit the scan fails and v stays 0.
\* (The texts reaching it hold no sign: they are pieces of a split on "-".)
SscanfInt(s) == DigitsValue(LeadingDigits(s))

(***************************************************************************)
(* formatUptime                                                            *)
(***************************************************************************)
\* The optional day prefix: strings.Split(etime, "-"), parts[0] scanned into
\* days and etime replaced by parts[1]
DaysOf(e) == IF Contains(e, "-") THEN SscanfInt(Split(e, "-")[1]) ELSE 0

TimeText(e) == IF Contains(e, "-") THEN Split(e, "-")[2] ELSE e

UptimeLabelOffByOne(totalHours, minutes) ==
    IF totalHours <= 3 THEN Itoa(totalHours * 60 + minutes) \o <<"m">>
    ELSE IF totalHours >= 200 THEN Itoa(totalHours \div 24) \o <<"d">>
    ELSE Itoa(totalHours) \o <<"h">>

\* The three-tier label
UptimeLabel(totalHours, minutes) ==
    IF totalHours < 3 THEN Itoa(totalHours * 60 + minutes) \o <<"m">>
    ELSE IF totalHours >= 200 THEN Itoa(totalHours \div 24) \o <<"d">>
    ELSE Itoa(totalHours) \o <<"h">>

formatUptime(e) ==
    LET days      == DaysOf(e)
        rest      == TimeText(e)
        timeParts == Split(rest, ":")
        n         == Len(timeParts)
        hours     == IF n = 3 THEN SscanfInt(timeParts[1]) ELSE 0
        minutes   == IF n = 3 THEN SscanfInt(timeParts[2])
                     ELSE IF n = 2 THEN SscanfInt(timeParts[1]) ELSE 0
        seconds   == IF n = 3 THEN SscanfInt(timeParts[3])
                     ELSE IF n = 2 THEN SscanfInt(timeParts[2]) ELSE 0
        totalSeconds == days * 86400 + hours * 3600 + minutes * 60 + seconds
        totalHours   == days * 24 + hours
    IN  IF n # 2 /\ n # 3
        THEN [label |-> rest, seconds |-> 0]
        ELSE [label |-> UptimeLabel(totalHours, minutes),
              seconds |-> totalSeconds]

(***************************************************************************)
(* Listing parser.  A line of the listing is the sequence of its           *)
(* whitespace-separated fields (strings.Fields); a field is a sequence of  *)
(* symbols: single characters where the code looks at characters (":" and  *)
(* digits), whole words elsewhere.                                         *)
(***************************************************************************)
ListenMarker == "(LISTEN)"

\* The symbols of the model's listings that contain the text LISTEN
ListenSymbols == {ListenMarker}

\* strings.Contains(line, "LISTEN")
ContainsListen(line) ==
    \E i \in 1..Len(line) : \E j \in 1..Len(line[i]) : line[i][j] \in ListenSymbols

AllDigits(s) == \A i \in 1..Len(s) : IsDigit(s[i])

\* The digits a field ends with after a ":", or <<>>: the part of
\* :(\d+)\s+ that lies inside one field
PortDigits(fld) ==
    IF \E k \in 1..Len(fld) :
           fld[k] = ":" /\ k < Len(fld) /\ AllDigits(SubSeq(fld, k + 1, Len(fld)))
    THEN LET k == CHOOSE k \in 1..Len(fld) :
                      fld[k] = ":" /\ k < Len(fld)
                      /\ AllDigits(SubSeq(fld, k + 1, Len(fld)))
         IN  SubSeq(fld, k + 1, Len(fld))
    ELSE <<>>

\* The places where the regular expression :(\d+)\s+\(LISTEN\) matches
RegexMatches(line) ==
    {i \in 1..(Len(line) - 1) :
        /\ PortDigits(line[i]) # <<>>
        /\ Len(line[i + 1]) > 0
        /\ line[i + 1][1] = ListenMarker}

\* FindStringSubmatch: the first group of the leftmost match
RegexPort(line) ==
    LET i == CHOOSE i \in RegexMatches(line) : \A j \in RegexMatches(line) : i <= j
    IN  PortDigits(line[i])

\* strconv.Atoi succeeds on digits that fit an int (64 bits: at most 18
\* digits always fit; the model's longer fields all overflow)
AtoiOk(d) == Len(d) <= 18

LineParsesAnyLength(line) ==
    /\ ContainsListen(line)
    /\ Len(line) >= 9
    /\ RegexMatches(line) # {}
    /\ AtoiOk(RegexPort(line))

\* Whether parseOutput gets past its four checks on a line
LineParses(line) ==
    /\ ContainsListen(line)
    /\ Len(line) >= 10
    /\ RegexMatches(line) # {}
    /\ AtoiOk(RegexPort(line))

LineRecord(line) ==
    [Port |-> DigitsValue(RegexPort(line)), Command |-> line[1], PID |-> line[2],
     User |-> line[3], Address |-> line[9],
     Path |-> <<>>, Uptime |-> <<>>, UptimeSeconds |-> 0]

PortPidKey(r) == <<r.Port, r.PID>>

SeenKeepAll(acc, r) == FALSE

\* seen[key] of parseOutput (and of displayPorts): the key of r is that of
\* a record already taken
Seen(acc, r) == \E i \in 1..Len(acc) : PortPidKey(acc[i]) = PortPidKey(r)

RECURSIVE ParseLines(_, _)
ParseLines(lines, acc) ==
    IF lines = <<>> THEN acc
    ELSE LET line == Head(lines)
         IN  IF LineParses(line) /\ ~Seen(acc, LineRecord(line))
             THEN ParseLines(Tail(lines), Append(acc, LineRecord(line)))
             ELSE ParseLines(Tail(lines), acc)

parseOutput(out) == ParseLines(out, <<>>)

(***************************************************************************)
(* Process metadata resolver                                               *)
(***************************************************************************)
NA == <<"N/A">>

\* The outcome of an external command or read: ok is whether it succeeded
\* (err == nil), and then the data it gave
Failure(empty) == [ok |-> FALSE, data |-> empty]

Success(data) == [ok |-> TRUE, data |-> data]

\* getWorkingDirectory: out is the outcome of lsof -Fn, its data the lines
\* printed, each a sequence of symbols whose first is the field letter
RECURSIVE FirstPathLine(_)
FirstPathLine(lines) ==
    IF lines = <<>> THEN NA
    ELSE IF Len(Head(lines)) > 1 /\ Head(lines)[1] = "n"
         THEN Tail(Head(lines))
         ELSE FirstPathLine(Tail(lines))

getWorkingDirectory(out) == IF ~out.ok THEN NA ELSE FirstPathLine(out.data)

\* getProcessUptime: out is the outcome of ps, its data the trimmed text
getProcessUptime(out) ==
    IF ~out.ok \/ out.data = <<>> THEN [label |-> NA, seconds |-> 0]
    ELSE formatUptime(out.data)

CacheHitUnlessNA(cache, pid) == pid \in DOMAIN cache /\ cache[pid] # NA

\* cachedPath, exists := pathCache[pid]
CacheHit(cache, pid) == pid \in DOMAIN cache

CachePut(cache, pid, v) == [q \in DOMAIN cache \cup {pid} |-> IF q = pid THEN v ELSE cache[q]]

(***************************************************************************)
(* Port classifier                                                         *)
(***************************************************************************)
Home == <<"/", "h">>

ExcludeCommands == {<<"redis-ser">>}

ExcludePrefixes == {<<"/", "opt", "/">>, <<"/", "usr", "/">>,
                    <<"/", "System", "/">>, <<"/", "Library", "/">>}

\* A leading "~/" replaced by the home directory (filepath.Join)
ExpandTilde(path) ==
    IF HasPrefix(path, <<"~", "/">>)
    THEN Home \o <<"/">> \o SubSeq(path, 3, Len(path))
    ELSE path

isUserPort(r) ==
    /\ r.Path # NA
    /\ r.Path # <<"/">>
    /\ r.Command \notin ExcludeCommands
    /\ \A prefix \in ExcludePrefixes : ~HasPrefix(ExpandTilde(r.Path), prefix)
    /\ ~HasPrefix(ExpandTilde(r.Path), Home \o <<"/", "Library">>)

RECURSIVE SelectSeqBy(_, _)
\* The records of a list that are in a set, in order
SelectSeqBy(list, keep) ==
    IF list = <<>> THEN <<>>
    ELSE IF Head(list) \in keep
         THEN <<Head(list)>> \o SelectSeqBy(Tail(list), keep)
         ELSE SelectSeqBy(Tail(list), keep)

Range(list) == {list[i] : i \in 1..Len(list)}

\* filterHiddenPorts: the records whose "port-pid" key the configuration
\* does not hide
filterHiddenPorts(list, hidden) ==
    SelectSeqBy(list, {r \in Range(list) : PortPidKey(r) \notin hidden})

(***************************************************************************)
(* Sorting and the two projections                                         *)
(***************************************************************************)
SortLessAscending(sortOrder, a, b) ==
    IF sortOrder = "port" THEN a.Port < b.Port
    ELSE a.UptimeSeconds < b.UptimeSeconds

\* less(i, j) of the two sort.Slice calls
SortLess(sortOrder, a, b) ==
    IF sortOrder = "port" THEN a.Port < b.Port
    ELSE a.UptimeSeconds > b.UptimeSeconds

\* The rearrangements of a list (as index permutations)
Perms(n) == {f \in [1..n -> 1..n] : \A i, j \in 1..n : f[i] = f[j] => i = j}

\* sort.Slice(list, less) is not a stable sort: any rearrangement in which
\* no element is less than one before it may result.  less is the set of
\* the pairs <<a, b>> of elements with a less than b
SortSlice(list, less) ==
    {[i \in 1..Len(list) |-> list[f[i]]] : f \in
        {g \in Perms(Len(list)) :
            \A i, j \in 1..Len(list) :
                i < j => <<list[g[j]], list[g[i]]>> \notin less}}

SortResults(list, sortOrder) ==
    SortSlice(list, {p \in Range(list) \X Range(list) :
                        SortLess(sortOrder, p[1], p[2])})

\* The orders in which ranging over a Go map may visit a set of keys
MapOrders(S) ==
    {f \in [1..Cardinality(S) -> S] :
        \A i, j \in 1..Cardinality(S) : f[i] = f[j] => i = j}

RECURSIVE TableRows(_, _)
\* The rows displayPorts appends for an already sorted list
TableRows(list, acc) ==
    IF list = <<>> THEN acc
    ELSE IF Head(list).Path = <<"/">> \/ Seen(acc, Head(list))
         THEN TableRows(Tail(list), acc)
         ELSE TableRows(Tail(list), Append(acc, Head(list)))

displayPorts(sorted) == TableRows(sorted, <<>>)

\* The objects displayPortsJSON encodes for an already sorted list
displayPortsJSON(sorted) ==
    SelectSeqBy(sorted, {r \in Range(sorted) : r.Path # <<"/">>})

(***************************************************************************)
(* Discovery ledger (~/.portage.log).  The file is the sequence of its     *)
(* lines; a line is the sequence of its symbols, "\t" between the fields.  *)
(***************************************************************************)
TAB == "\t"

AppendRewriting(log, line) == <<line>>

\* f.WriteString on a file opened with O_APPEND
AppendLine(log, line) == Append(log, line)

\* time.Format("2006-01-02 15:04:05") of a time, as the digits of its seconds
FormatTime(t) == Itoa(t)

\* The line stamped with the time of the observation
DiscoveryLineNow(now0, r) ==
    FormatTime(now0) \o <<TAB>> \o Itoa(r.Port) \o <<TAB>>
        \o r.PID \o <<TAB>> \o r.Command \o <<TAB>> \o r.Path

\* The line logNewPorts writes for a record (without its "\n")
DiscoveryLine(now0, r) ==
    FormatTime(now0 - r.UptimeSeconds) \o <<TAB>> \o Itoa(r.Port) \o <<TAB>>
        \o r.PID \o <<TAB>> \o r.Command \o <<TAB>> \o r.Path

\* key := parts[1] + ":" + parts[4] of a line with at least five parts
LineKeys(line) ==
    LET parts == Split(line, TAB)
    IN  IF line # <<>> /\ Len(parts) >= 5
        THEN {parts[2] \o <<":">> \o parts[5]}
        ELSE {}

\* seenCombos after the log has been read
LoadSeenCombos(log) == UNION {LineKeys(log[i]) : i \in 1..Len(log)}

\* key := fmt.Sprintf("%d:%s", port.Port, port.Path)
ComboKey(r) == Itoa(r.Port) \o <<":">> \o r.Path

MarkSeenNever(seen, key) == seen

\* seenCombos[key] = true
MarkSeen(seen, key) == seen \cup {key}

RECURSIVE AppendNewPortsRootToo(_, _, _, _)
\* The loop without the test of the root path
AppendNewPortsRootToo(log, list, seen, now0) ==
    IF list = <<>> THEN log
    ELSE LET r == Head(list)
         IN  IF r.Path = NA \/ ComboKey(r) \in seen
             THEN AppendNewPortsRootToo(log, Tail(list), seen, now0)
             ELSE AppendNewPortsRootToo(AppendLine(log, DiscoveryLine(now0, r)),
                                        Tail(list), MarkSeen(seen, ComboKey(r)), now0)

RECURSIVE AppendNewPorts(_, _, _, _)
\* The loop of logNewPorts over the records
AppendNewPorts(log, list, seen, now0) ==
    IF list = <<>> THEN log
    ELSE LET r == Head(list)
         IN  IF r.Path = NA \/ r.Path = <<"/">> \/ ComboKey(r) \in seen
             THEN AppendNewPorts(log, Tail(list), seen, now0)
             ELSE AppendNewPorts(AppendLine(log, DiscoveryLine(now0, r)), Tail(list),
                                 MarkSeen(seen, ComboKey(r)), now0)

logNewPortsAlways(log, list, now0, canOpen) ==
    AppendNewPorts(log, list, LoadSeenCombos(log), now0)

\* logNewPorts: the file after the call; canOpen is whether os.OpenFile
\* succeeded
logNewPorts(log, list, now0, canOpen) ==
    IF ~canOpen THEN log
    ELSE AppendNewPorts(log, list, LoadSeenCombos(log), now0)

\* The five values logNewPorts formats into the line of a record
WrittenEntry(now0, r) ==
    [Timestamp |-> FormatTime(now0 - r.UptimeSeconds), Port |-> r.Port,
     PID |-> r.PID, Command |-> r.Command, Path |-> r.Path]

RECURSIVE WrittenEntries(_, _, _)
\* The entries the loop of logNewPorts writes, in order
WrittenEntries(list, seen, now0) ==
    IF list = <<>> THEN <<>>
    ELSE LET r == Head(list)
         IN  IF r.Path = NA \/ r.Path = <<"/">> \/ ComboKey(r) \in seen
             THEN WrittenEntries(Tail(list), seen, now0)
             ELSE <<WrittenEntry(now0, r)>>
                      \o WrittenEntries(Tail(list), MarkSeen(seen, ComboKey(r)), now0)

\* The entries one call of logNewPorts writes
NewlyWritten(log, list, now0, canOpen) ==
    IF ~canOpen THEN <<>> ELSE WrittenEntries(list, LoadSeenCombos(log), now0)

(***************************************************************************)
(* Discovery history (displayHistory)                                      *)
(***************************************************************************)
\* port, _ := strconv.Atoi(parts[1])
AtoiOrZero(d) == IF d # <<>> /\ AllDigits(d) /\ AtoiOk(d) THEN DigitsValue(d) ELSE 0

EntryOfPartsSwapped(parts) ==
    [Timestamp |-> parts[1], Port |-> AtoiOrZero(parts[2]), PID |-> parts[4],
     Command |-> parts[3], Path |-> parts[5]]

\* The HistoryEntry built from the parts of a line
EntryOfParts(parts) ==
    [Timestamp |-> parts[1], Port |-> AtoiOrZero(parts[2]), PID |-> parts[3],
     Command |-> parts[4], Path |-> parts[5]]

RECURSIVE HistoryEntries(_)
\* entries of displayHistory: the lines of at least five parts whose
\* command and path isUserPort accepts, in file order
HistoryEntries(lines) ==
    IF lines = <<>> THEN <<>>
    ELSE LET parts == Split(Head(lines), TAB)
             rest  == HistoryEntries(Tail(lines))
         IN  IF Head(lines) = <<>> \/ Len(parts) < 5 THEN rest
             ELSE IF isUserPort(EntryOfParts(parts))
                  THEN <<EntryOfParts(parts)>> \o rest
                  ELSE rest

\* The rows of the table, the most recent entry first
HistoryRows(entries) ==
    [i \in 1..Len(entries) |->
        LET e == entries[Len(entries) + 1 - i]
        IN  [Timestamp |-> e.Timestamp, Port |-> e.Port, Command |-> e.Command,
             Path |-> e.Path]]

\* displayHistory: the entries it rebuilds and the rows it prints; canRead
\* is whether os.ReadFile succeeded
displayHistory(log, canRead) ==
    LET entries == IF canRead THEN HistoryEntries(log) ELSE <<>>
    IN  [entries |-> entries, rows |-> HistoryRows(entries)]

(***************************************************************************)
(* Workspace event ledger (~/.portage-workspace.log)                       *)
(***************************************************************************)
COMMA == ","

WorkspaceLine(now0, event, path) ==
    Itoa(now0) \o <<COMMA>> \o <<event>> \o <<COMMA>> \o path

\* appendWorkspaceEvent: the file after the call
appendWorkspaceEvent(log, now0, event, path, canOpen) ==
    IF ~canOpen THEN log
    ELSE AppendLine(log, WorkspaceLine(now0, event, path))

\* strings.SplitN(line, ",", 3)
SplitN3(line) ==
    LET first == Split(line, COMMA)
    IN  IF Len(first) < 3 THEN first
        ELSE <<first[1], first[2],
               SubSeq(line, Len(first[1]) + Len(first[2]) + 3, Len(line))>>

RECURSIVE ParseWorkspaceLines(_)
\* readWorkspaceLog: the events of the well-shaped lines, in file order
ParseWorkspaceLines(lines) ==
    IF lines = <<>> THEN <<>>
    ELSE LET parts == SplitN3(Head(lines))
             rest  == ParseWorkspaceLines(Tail(lines))
         IN  IF Head(lines) = <<>> \/ Len(parts) # 3
                \/ parts[1] = <<>> \/ ~AllDigits(parts[1])
             THEN rest
             ELSE <<[Timestamp |-> DigitsValue(parts[1]),
                     Event |-> parts[2], Path |-> parts[3]]>> \o rest

readWorkspaceLog(log) == ParseWorkspaceLines(log)

SupersedesOrEqual(event, existing) == event.Timestamp >= existing.Timestamp

\* The event written later in the file replaces the earlier one
SupersedesAlways(event, existing) == TRUE

\* event.Timestamp > existing.Timestamp
Supersedes(event, existing) == event.Timestamp > existing.Timestamp

RECURSIVE LastEventsFrom(_, _)
\* The map path -> last event both history views build
LastEventsFrom(events, m) ==
    IF events = <<>> THEN m
    ELSE LET e == Head(events)
         IN  IF e.Path \notin DOMAIN m \/ Supersedes(e, m[e.Path])
             THEN LastEventsFrom(Tail(events),
                      [q \in DOMAIN m \cup {e.Path} |->
                          IF q = e.Path THEN e ELSE m[q]])
             ELSE LastEventsFrom(Tail(events), m)

LastEvents(events) == LastEventsFrom(events, <<>>)

\* The paths whose kept event is a close
ClosedPaths(last) == {q \in DOMAIN last : last[q].Event = <<"close">>}

(***************************************************************************)
(* Closed-workspace history (--cursor-history) and combined history        *)
(* (--history).  open is the result of getOpenCursorWindows (a set of      *)
(* paths, empty when the query fails), exists the paths os.Stat finds,     *)
(* recents the folders of the editor's recently-opened list, decoded       *)
(* (empty when the editor database cannot be read).                        *)
(***************************************************************************)
\* closed left in the order the map was ranged over
ClosedOrdersUnsorted(last) ==
    MapOrders({[path |-> q, closedAt |-> last[q].Timestamp] : q \in ClosedPaths(last)})

\* closed, sorted by close time, most recent first: the orders possible
ClosedOrders(last) ==
    LET closedSet == {[path |-> q, closedAt |-> last[q].Timestamp] :
                          q \in ClosedPaths(last)}
        less == {p \in closedSet \X closedSet : p[1].closedAt > p[2].closedAt}
    IN  UNION {SortSlice(order, less) : order \in MapOrders(closedSet)}

RECURSIVE TakeFromLog(_, _, _, _, _)
\* The first loop of displayCursorHistory
TakeFromLog(closed, acc, open, exists, limit) ==
    IF closed = <<>> THEN acc
    ELSE LET q == Head(closed).path
         IN  IF q \in open \/ q \notin exists
             THEN TakeFromLog(Tail(closed), acc, open, exists, limit)
             ELSE IF Len(acc) + 1 >= limit
                  THEN Append(acc, q)
                  ELSE TakeFromLog(Tail(closed), Append(acc, q), open, exists, limit)

RECURSIVE TakeFromRecents(_, _, _, _, _)
\* The second loop: the editor's own list supplements the result
TakeFromRecents(recents, acc, open, exists, limit) ==
    IF recents = <<>> THEN acc
    ELSE LET q == Head(recents)
         IN  IF q \in Range(acc) \/ q \in open \/ q \notin exists
             THEN TakeFromRecents(Tail(recents), acc, open, exists, limit)
             ELSE IF Len(acc) + 1 >= limit
                  THEN Append(acc, q)
                  ELSE TakeFromRecents(Tail(recents), Append(acc, q), open,
                                       exists, limit)

\* What one order of closed makes displayCursorHistory print
CursorHistoryOf(closed, open, exists, recents, limit) ==
    LET fromLog == TakeFromLog(closed, <<>>, open, exists, limit)
    IN  IF Len(fromLog) < limit
        THEN TakeFromRecents(recents, fromLog, open, exists, limit)
        ELSE fromLog

\* displayCursorHistory: the lists it may print; canRead is whether
\* readWorkspaceLog succeeded
displayCursorHistory(log, canRead, open, exists, recents, limit) ==
    LET events == IF canRead THEN readWorkspaceLog(log) ELSE <<>>
    IN  {CursorHistoryOf(closed, open, exists, recents, limit) :
            closed \in ClosedOrders(LastEvents(events))}

\* The cursor entries displayWorkspaceHistory collects
CursorEntries(log, canRead, open, exists) ==
    IF ~canRead THEN {}
    ELSE LET last == LastEvents(readWorkspaceLog(log))
         IN  {[Type |-> "cursor", Path |-> q, Timestamp |-> last[q].Timestamp * 1000] :
                 q \in {c \in ClosedPaths(last) : c \notin open /\ c \in exists}}

\* The list is never cut
TruncateNever(list, limit) == list

\* history = history[:cursorHistoryLimit], when the limit is positive
Truncate(list, limit) ==
    IF limit > 0 /\ Len(list) > limit THEN SubSeq(list, 1, limit) ELSE list

\* displayWorkspaceHistory: the lists it may print; claude are the entries
\* built from the assistant's sessions
displayWorkspaceHistory(claude, log, canRead, open, exists, limit) ==
    LET cursor == CursorEntries(log, canRead, open, exists)
        all == Range(claude) \cup cursor
        less == {p \in all \X all : p[1].Timestamp > p[2].Timestamp}
    IN  {Truncate(sorted, limit) :
            sorted \in UNION {SortSlice(claude \o order, less) :
                order \in MapOrders(cursor)}}

(***************************************************************************)
(* Unified view (--unified).  storage is the outcome of reading the        *)
(* editor's workspace storage, its data the list of the usable entries     *)
(* [Path, ModTime]; open is the outcome of the window query (a nil map     *)
(* when it fails), its data the set of open paths.                         *)
(***************************************************************************)
PortJSON(r) ==
    [Port |-> r.Port, Command |-> r.Command, PID |-> r.PID,
     Uptime |-> r.Uptime, WorkDir |-> r.Path]

ScanWorkspacesOpenOnly(storage, open, exists) ==
    IF ~storage.ok THEN <<>>
    ELSE SelectSeqBy(storage.data,
            {w \in Range(storage.data) : w.Path \in exists /\ w.Path \in open.data})

\* The workspaces the scan of the storage keeps, in directory order
ScanWorkspaces(storage, open, exists) ==
    IF ~storage.ok THEN <<>>
    ELSE SelectSeqBy(storage.data,
            {w \in Range(storage.data) :
                /\ w.Path \in exists
                /\ (open.ok /\ open.data # {}) => w.Path \in open.data})

RECURSIVE WorkspaceMap(_, _, _)
\* workspaceMap: path -> item; a later entry of the same path replaces the
\* earlier one
WorkspaceMap(workspaces, m, now0) ==
    IF workspaces = <<>> THEN m
    ELSE LET w == Head(workspaces)
             item == [Type |-> "workspace", WorkspacePath |-> w.Path,
                      LastActive |-> now0 - w.ModTime]
         IN  WorkspaceMap(Tail(workspaces),
                 [q \in DOMAIN m \cup {w.Path} |-> IF q = w.Path THEN item ELSE m[q]],
                 now0)

MatchesAnywhere(path, wsPath) ==
    \E k \in 0..(Len(path) - Len(wsPath)) :
        SubSeq(path, k + 1, k + Len(wsPath)) = wsPath

\* strings.HasPrefix(port.Path, wsPath)
Matches(path, wsPath) == HasPrefix(path, wsPath)

Orphaned == [matched |-> FALSE]

\* The ways the matching loop may go: ranging over workspaceMap visits the
\* paths in an order that differs from one loop to the next, and the first
\* path visited that matches takes the port
Assignments(userPorts, wsPaths) ==
    {a \in [1..Len(userPorts) ->
              {Orphaned} \cup {[matched |-> TRUE, path |-> q] : q \in wsPaths}] :
        \A i \in 1..Len(userPorts) :
            LET hits == {q \in wsPaths : Matches(userPorts[i].Path, q)}
            IN  IF hits = {} THEN a[i] = Orphaned
                ELSE a[i] # Orphaned /\ a[i].path \in hits}

RECURSIVE PortsOf(_, _, _, _)
\* The ports an assignment gives to one target, in port order
PortsOf(userPorts, a, target, i) ==
    IF i > Len(userPorts) THEN <<>>
    ELSE (IF a[i] = target THEN <<PortJSON(userPorts[i])>> ELSE <<>>)
             \o PortsOf(userPorts, a, target, i + 1)

\* The result list with the workspace items left in the order of the map
UnifiedResultsUnsorted(userPorts, m, a) ==
    LET items == {[Type |-> "workspace", WorkspacePath |-> q,
                   LastActive |-> m[q].LastActive,
                   Ports |-> PortsOf(userPorts, a, [matched |-> TRUE, path |-> q], 1)] :
                     q \in DOMAIN m}
        orphans == PortsOf(userPorts, a, Orphaned, 1)
        bucket == IF orphans = <<>> THEN <<>>
                  ELSE <<[Type |-> "orphaned", Ports |-> orphans]>>
    IN  {[emitted |-> TRUE, items |-> order \o bucket] : order \in MapOrders(items)}

\* The result list for one assignment: the workspace items in one of the
\* orders the sort on LastActive allows, then the orphaned bucket if any
UnifiedResults(userPorts, m, a) ==
    LET items == {[Type |-> "workspace", WorkspacePath |-> q,
                   LastActive |-> m[q].LastActive,
                   Ports |-> PortsOf(userPorts, a, [matched |-> TRUE, path |-> q], 1)] :
                     q \in DOMAIN m}
        less == {p \in items \X items : p[1].LastActive < p[2].LastActive}
        orphans == PortsOf(userPorts, a, Orphaned, 1)
        bucket == IF orphans = <<>> THEN <<>>
                  ELSE <<[Type |-> "orphaned", Ports |-> orphans]>>
    IN  {[emitted |-> TRUE, items |-> sorted \o bucket] :
            sorted \in UNION {SortSlice(order, less) : order \in MapOrders(items)}}

NoResult == [emitted |-> FALSE, items |-> <<>>]

\* displayUnified after the listing has been parsed and resolved: the
\* results it may print, NoResult when the home directory is unknown
displayUnified(resolved, homeOk, storage, open, exists, now0) ==
    LET userPorts == SelectSeqBy(resolved, {r \in Range(resolved) : isUserPort(r)})
        m == WorkspaceMap(ScanWorkspaces(storage, open, exists), <<>>, now0)
    IN  IF ~homeOk THEN {NoResult}
        ELSE UNION {UnifiedResults(userPorts, m, a) :
                       a \in Assignments(userPorts, DOMAIN m)}

(***************************************************************************)
(* Inputs of the formatUptime specification                                *)
(***************************************************************************)
MaxEtimeLen == 3

EtimeAlphabet == {"1", "5", ":", "-"}

\* Every text of at most MaxEtimeLen characters over the alphabet
AllEtimeTexts ==
    UNION {[1..n -> EtimeAlphabet] : n \in 0..MaxEtimeLen}

DayValues == {0, 1, 8, 9}
HourValues == {0, 2, 3, 23, 199, 200}
MinSecValues == {0, 5, 59}

\* A number as ps prints it in a group: bare, or padded to two digits
Pad2(n) == IF n < 10 THEN <<"0">> \o Itoa(n) ELSE Itoa(n)

Groups(n) == {Itoa(n), Pad2(n)}

\* The well-formed texts for minutes:seconds, hours:minutes:seconds and
\* days-hours:minutes:seconds
TextsMS(m, s) == {gm \o <<":">> \o gs : gm \in Groups(m), gs \in Groups(s)}

TextsHMS(h, m, s) == {gh \o <<":">> \o t : gh \in Groups(h), t \in TextsMS(m, s)}

TextsDHMS(d, h, m, s) == {Itoa(d) \o <<"-">> \o t : t \in TextsHMS(h, m, s)}

TextsDMS(d, m, s) == {Itoa(d) \o <<"-">> \o t : t \in TextsMS(m, s)}

WellFormedEtimes ==
    UNION {TextsMS(m, s) \cup
           UNION {TextsHMS(h, m, s) \cup
                  UNION {TextsDHMS(d, h, m, s) : d \in DayValues}
                  : h \in HourValues} \cup
           UNION {TextsDMS(d, m, s) : d \in DayValues}
           : m \in MinSecValues, s \in MinSecValues}

EtimeInputs == AllEtimeTexts \cup WellFormedEtimes

(***************************************************************************)
(* Inputs of the other specifications                                      *)
(***************************************************************************)
W(x) == <<x>>

Addr(host, digits) == <<host, ":">> \o digits

Digits3000 == <<"3", "0", "0", "0">>
Digits8080 == <<"8", "0", "8", "0">>

ListenLine(cmd, pid, user, fd, addr) ==
    <<W(cmd), W(pid), W(user), W(fd), W("IPv4"), W("0x1"), W("0t0"), W("TCP"),
      addr, W(ListenMarker)>>

\* The lines the listings are made of: two lines of one (port, pid) that
\* differ in their address, a second process on the same port, a second
\* port of the first process, a connection that is not listening, and a
\* listening line of nine fields
ListingLines ==
    {ListenLine("node", "501", "alice", "23u", Addr("127.0.0.1", Digits3000)),
     ListenLine("node", "501", "alice", "24u", Addr("[::1]", Digits3000)),
     ListenLine("ruby", "502", "bob", "9u", Addr("*", Digits3000)),
     ListenLine("node", "501", "alice", "25u", Addr("*", Digits8080)),
     <<W("node"), W("501"), W("alice"), W("26u"), W("IPv4"), W("0x1"), W("0t0"),
       W("TCP"), Addr("127.0.0.1", Digits3000) \o <<"->", "127.0.0.1", ":", "5">>,
       W("(ESTABLISHED)")>>,
     <<W("node"), W("503"), W("alice"), W("23u"), W("IPv4"), W("0t0"),
       W("TCP"), Addr("*", Digits8080), W(ListenMarker)>>}

MaxLines == 3

Listings == UNION {[1..n -> ListingLines] : n \in 0..MaxLines}

AppPath == <<"/", "h", "/", "app">>
WebPath == <<"/", "h", "/", "app", "/", "web">>
ApplePath == <<"/", "h", "/", "app", "le">>
OtherPath == <<"/", "srv">>

\* What lsof -a -p pid -d cwd -Fn may give
CwdOutputs ==
    {Failure(<<>>),
     Success(<<<<"p", "501">>, <<"f", "cwd">>, <<"n">> \o AppPath>>),
     Success(<<<<"p", "501">>, <<"f", "cwd">>, <<"n", "/">>>>)}

\* What ps -p pid -o etime= may give, trimmed
UptimeOutputs == {Failure(<<>>), Success(<<"0", "5", ":", "0", "0">>)}

\* The "port-pid" keys a configuration may hide
HiddenSets == {{}, {<<3000, W("502")>>}}

Rec(port, pid, cmd, path, label, secs) ==
    [Port |-> port, Command |-> W(cmd), PID |-> W(pid), User |-> W("alice"),
     Address |-> Addr("*", Itoa(port)), Path |-> path, Uptime |-> label,
     UptimeSeconds |-> secs]

\* The records handed to logNewPorts: two processes on one port in one
\* directory, a second port, and the two skipped paths
LedgerRecords ==
    {Rec(3000, "501", "node", AppPath, <<"0", "m">>, 0),
     Rec(3000, "502", "node", AppPath, <<"0", "m">>, 2),
     Rec(8080, "501", "node", AppPath, <<"0", "m">>, 1),
     Rec(3000, "504", "ruby", NA, NA, 0),
     Rec(3000, "505", "ruby", <<"/">>, <<"0", "m">>, 0)}

MaxPorts == 2

\* Lists of records of distinct (port, processId), as the parser leaves them
RecordLists ==
    UNION {{l \in [1..n -> LedgerRecords] : \A i, j \in 1..n : l[i] = l[j] => i = j} :
              n \in 0..MaxPorts}

WsPathA == <<"/", "p", "/", "a">>
WsPathB == <<"/", "p", "/", "b">>
WsPaths == {WsPathA, WsPathB}

MaxTicks == 1
MaxEvents == 3
MaxLedgerEvents == 2

\* Values of --limit (10 is its default)
Limits == {1, 2, 10}

\* The environments of the history views: the open windows, the paths on
\* disk, the editor's recently-opened list, the assistant's sessions
OpenSets == {{}, {WsPathA}}

ExistingSets == {WsPaths, {WsPathB}}

RecentLists == {<<>>, <<WsPathA>>, <<WsPathB, WsPathA>>}

ClaudeLists ==
    {<<>>, <<[Type |-> "claude", Path |-> WsPathA, Timestamp |-> 20000500]>>}

(***************************************************************************)
(* The specifications                                                      *)
(***************************************************************************)
UptimeIdle == etime = <<>> /\ fmtResult = None

MainIdle ==
    /\ lsofOutput = <<>> /\ mode = "main" /\ pc = "idle" /\ ports = <<>>
    /\ idx = 1 /\ pathCache = <<>> /\ uptimeCache = <<>>
    /\ uptimeSecondsCache = <<>> /\ cwdLookups = <<>> /\ uptimeLookups = <<>>
    /\ output = None /\ degraded = {}

LedgerStart ==
    /\ now = 20000 /\ portLog = <<>> /\ wsLog = <<>>
    /\ lastOp = [q \in WsPaths |-> "none"] /\ view = None /\ written = <<>>

UnifiedIdle == uInput = None /\ uRuns = <<>>

ClassIdle == clsInput = None /\ clsResult = None

CliIdle == cli = None

WritersIdle == writers = None

UiIdle == ui = None /\ configFile = {} /\ hiddenSince = {}

RestIdle == ClassIdle /\ CliIdle /\ WritersIdle /\ UiIdle

(*-------------------------- formatUptime --------------------------------*)
InitUptime ==
    /\ etime \in EtimeInputs /\ fmtResult = None
    /\ MainIdle /\ LedgerStart /\ UnifiedIdle /\ RestIdle

\* getProcessUptime hands the trimmed ps output to formatUptime
FormatUptimeCall ==
    /\ fmtResult = None
    /\ fmtResult' = formatUptime(etime)
    /\ UNCHANGED <<etime, mainVars, ledgerVars, unifiedVars, restVars>>

NextUptime == FormatUptimeCall

SpecUptime == InitUptime /\ [][NextUptime]_vars


(*----------------------- a run of the program ---------------------------*)
InitMain ==
    /\ lsofOutput \in Listings /\ mode \in {"main", "unified"} /\ pc = "listing"
    /\ ports = <<>> /\ idx = 1 /\ pathCache = <<>> /\ uptimeCache = <<>>
    /\ uptimeSecondsCache = <<>> /\ cwdLookups = <<>> /\ uptimeLookups = <<>>
    /\ output = None /\ degraded = {}
    /\ UptimeIdle /\ LedgerStart /\ UnifiedIdle /\ RestIdle

\* lsof -i -P -n cannot be run: the run exits with code 1
ListingFails ==
    /\ pc = "listing"
    /\ pc' = "exit1"
    /\ UNCHANGED <<lsofOutput, mode, ports, idx, pathCache, uptimeCache,
                   uptimeSecondsCache, cwdLookups, uptimeLookups, output, degraded,
                   uptimeVars, ledgerVars, unifiedVars, restVars>>

ParseListing ==
    /\ pc = "listing"
    /\ ports' = parseOutput(lsofOutput)
    /\ pc' = "resolve"
    /\ UNCHANGED <<lsofOutput, mode, idx, pathCache, uptimeCache,
                   uptimeSecondsCache, cwdLookups, uptimeLookups, output, degraded,
                   uptimeVars, ledgerVars, unifiedVars, restVars>>

\* One round of the resolver loop on a pid the cache holds
ResolveCached ==
    /\ pc = "resolve" /\ idx <= Len(ports)
    /\ CacheHit(pathCache, ports[idx].PID)
    /\ LET pid == ports[idx].PID
       IN  ports' = [ports EXCEPT
               ![idx].Path = pathCache[pid],
               ![idx].Uptime = uptimeCache[pid],
               ![idx].UptimeSeconds =
                   IF mode = "main" THEN uptimeSecondsCache[pid] ELSE 0]
    /\ idx' = idx + 1
    /\ UNCHANGED <<lsofOutput, mode, pc, pathCache, uptimeCache,
                   uptimeSecondsCache, cwdLookups, uptimeLookups, output, degraded,
                   uptimeVars, ledgerVars, unifiedVars, restVars>>

\* One round of the resolver loop on a pid the cache does not hold: both
\* lookups are made, whatever they give is cached
ResolveLookup ==
    /\ pc = "resolve" /\ idx <= Len(ports)
    /\ ~CacheHit(pathCache, ports[idx].PID)
    /\ \E cwdOut \in CwdOutputs, upOut \in UptimeOutputs :
         LET pid == ports[idx].PID
             path == getWorkingDirectory(cwdOut)
             up == getProcessUptime(upOut)
         IN  /\ ports' = [ports EXCEPT
                    ![idx].Path = path,
                    ![idx].Uptime = up.label,
                    ![idx].UptimeSeconds = IF mode = "main" THEN up.seconds ELSE 0]
             /\ pathCache' = CachePut(pathCache, pid, path)
             /\ uptimeCache' = CachePut(uptimeCache, pid, up.label)
             /\ uptimeSecondsCache' =
                    IF mode = "main" THEN CachePut(uptimeSecondsCache, pid, up.seconds)
                    ELSE uptimeSecondsCache
             /\ cwdLookups' = Append(cwdLookups, pid)
             /\ uptimeLookups' = Append(uptimeLookups, pid)
             /\ degraded' = degraded \cup (IF cwdOut.ok THEN {} ELSE {<<"cwd", pid>>})
                                     \cup (IF upOut.ok THEN {} ELSE {<<"uptime", pid>>})
    /\ idx' = idx + 1
    /\ UNCHANGED <<lsofOutput, mode, pc, output, uptimeVars, ledgerVars, unifiedVars, restVars>>

\* The rest of main: the classifier (unless --all), the hidden ports, the
\* discovery ledger, and the table or JSON projection
FinishMain ==
    /\ pc = "resolve" /\ idx > Len(ports) /\ mode = "main"
    /\ \E showAllPorts \in BOOLEAN, jsonOutput \in BOOLEAN,
          sortBy \in {"port", "uptime"}, hidden \in HiddenSets, canOpen \in BOOLEAN :
         LET userPorts == IF showAllPorts THEN ports
                          ELSE SelectSeqBy(ports, {r \in Range(ports) : isUserPort(r)})
             filtered == filterHiddenPorts(userPorts, hidden)
         IN  /\ portLog' = logNewPorts(portLog, filtered, now, canOpen)
             /\ written' = written \o NewlyWritten(portLog, filtered, now, canOpen)
             /\ degraded' = degraded \cup (IF canOpen THEN {} ELSE {<<"ledger", <<>>>>})
             /\ \E sorted \in SortResults(filtered, sortBy) :
                  output' = [kind |-> IF jsonOutput THEN "json" ELSE "table",
                             sortOrder |-> sortBy,
                             rows |-> IF jsonOutput THEN displayPortsJSON(sorted)
                                      ELSE displayPorts(sorted)]
    /\ pc' = "done"
    /\ UNCHANGED <<lsofOutput, mode, ports, idx, pathCache, uptimeCache,
                   uptimeSecondsCache, cwdLookups, uptimeLookups,
                   uptimeVars, now, wsLog, lastOp, view, unifiedVars, restVars>>

\* The workspace storages and window sets of the unified runs
Storages ==
    {Failure(<<>>), Success(<<>>),
     Success(<<[Path |-> AppPath, ModTime |-> 19990]>>),
     Success(<<[Path |-> AppPath, ModTime |-> 19990], [Path |-> WebPath, ModTime |-> 19995]>>),
     Success(<<[Path |-> WebPath, ModTime |-> 19990], [Path |-> OtherPath, ModTime |-> 19990]>>)}

OpenResults == {Failure({}), Success({}), Success({AppPath}), Success({AppPath, WebPath})}

ExistSets == {{AppPath, WebPath, OtherPath}, {AppPath}}

\* The storages and window sets of the unified runs that start from a
\* listing
RunStorages == {s \in Storages : s.ok => Len(s.data) = 2 /\ s.data[1].Path = AppPath}

RunOpenResults == {o \in OpenResults : o.ok => o.data = {AppPath}}

\* The rest of displayUnified
FinishUnified ==
    /\ pc = "resolve" /\ idx > Len(ports) /\ mode = "unified"
    /\ \E homeOk \in BOOLEAN, storage \in RunStorages, open \in RunOpenResults,
          exists \in ExistSets :
         /\ output' \in
              {[kind |-> "unified", sortOrder |-> "lastActive", rows |-> res.items] :
                  res \in displayUnified(ports, homeOk, storage, open, exists, now)}
    /\ pc' = "done"
    /\ UNCHANGED <<lsofOutput, mode, ports, idx, pathCache, uptimeCache,
                   uptimeSecondsCache, cwdLookups, uptimeLookups, degraded,
                   uptimeVars, ledgerVars, unifiedVars, restVars>>

NextMain ==
    \/ ListingFails
    \/ ParseListing
    \/ ResolveCached
    \/ ResolveLookup
    \/ FinishMain
    \/ FinishUnified

SpecMain == InitMain /\ [][NextMain]_vars

(*--------------------------- the ledgers --------------------------------*)
Tick ==
    /\ now < 20000 + MaxTicks
    /\ now' = now + 1
    /\ UNCHANGED <<portLog, wsLog, lastOp, view, written, uptimeVars, mainVars,
                   unifiedVars, restVars>>

\* The discovery logging of a run in the default mode, on the records that
\* passed its filters
RunLogNewPortsOn(lists) ==
    /\ \E list \in lists, canOpen \in BOOLEAN :
         /\ portLog' = logNewPorts(portLog, list, now, canOpen)
         /\ written' = written \o NewlyWritten(portLog, list, now, canOpen)
    /\ UNCHANGED <<now, wsLog, lastOp, view, uptimeVars, mainVars, unifiedVars, restVars>>

RunLogNewPorts == RunLogNewPortsOn(RecordLists)

\* --log-close path (addWorkspaceCloseEvent) and --log-open path
\* (removeWorkspaceCloseEvent); the run exits with code 1 when the file
\* cannot be opened
LogWorkspace(event, paths, maxLines) ==
    /\ Len(wsLog) < maxLines
    /\ \E path \in paths, canOpen \in BOOLEAN :
         /\ wsLog' = appendWorkspaceEvent(wsLog, now, event, path, canOpen)
         /\ lastOp' = IF canOpen THEN [lastOp EXCEPT ![path] = event] ELSE lastOp
    /\ view' = None
    /\ UNCHANGED <<now, portLog, written, uptimeVars, mainVars, unifiedVars, restVars>>

\* --cursor-history.  view holds what the last view run printed from the
\* ledger as it is now: a view run is taken once per ledger content, and an
\* append discards it
ShowCursorHistory(opens, existings, recentLists, limits) ==
    /\ view = None
    /\ \E canRead \in BOOLEAN, open \in opens, exists \in existings,
          recents \in recentLists, limit \in limits :
         view' \in {[kind |-> "cursor-history", canRead |-> canRead, open |-> open,
                     exists |-> exists, recents |-> recents, claude |-> <<>>,
                     limit |-> limit, out |-> out] :
                       out \in displayCursorHistory(wsLog, canRead, open, exists,
                                                    recents, limit)}
    /\ UNCHANGED <<now, portLog, wsLog, lastOp, written, uptimeVars, mainVars,
                   unifiedVars, restVars>>

\* --history
ShowWorkspaceHistory(opens, existings, claudeLists, limits) ==
    /\ view = None
    /\ \E canRead \in BOOLEAN, open \in opens, exists \in existings,
          claude \in claudeLists, limit \in limits :
         view' \in {[kind |-> "history", canRead |-> canRead, open |-> open,
                     exists |-> exists, recents |-> <<>>, claude |-> claude,
                     limit |-> limit, out |-> out] :
                       out \in displayWorkspaceHistory(claude, wsLog, canRead, open,
                                                       exists, limit)}
    /\ UNCHANGED <<now, portLog, wsLog, lastOp, written, uptimeVars, mainVars,
                   unifiedVars, restVars>>

InitLedger == LedgerStart /\ UptimeIdle /\ MainIdle /\ UnifiedIdle /\ RestIdle

\* The life of the two ledger files over the runs of the program that read
\* or write them
Next ==
    \/ Tick
    \/ RunLogNewPorts
    \/ LogWorkspace("close", {WsPathA}, MaxLedgerEvents)
    \/ LogWorkspace("open", {WsPathA}, MaxLedgerEvents)
    \/ ShowCursorHistory({{}}, {WsPaths}, {<<>>}, {10})
    \/ ShowWorkspaceHistory({{}}, {WsPaths}, {<<>>}, {10})

Spec == InitLedger /\ [][Next]_vars

\* The workspace event ledger and the two views derived from it
NextWorkspace ==
    \/ Tick
    \/ LogWorkspace("close", WsPaths, MaxEvents)
    \/ LogWorkspace("open", WsPaths, MaxEvents)
    \/ ShowCursorHistory(OpenSets, ExistingSets, RecentLists, Limits)
    \/ ShowWorkspaceHistory(OpenSets, ExistingSets, ClaudeLists, Limits)

SpecWorkspace == InitLedger /\ [][NextWorkspace]_vars

(*------------------ displayUnified, run on the same inputs --------------*)
\* Resolved records of distinct processes: under nested workspaces, under a
\* workspace by string prefix only (/h/apple under /h/app), with a workspace
\* path inside but not at the start of its path, in a system directory, and
\* under no workspace
UnifiedRecords ==
    {Rec(3000, "501", "node", WebPath, <<"5", "m">>, 0),
     Rec(8080, "502", "node", ApplePath, <<"5", "m">>, 0),
     Rec(5000, "503", "ruby", OtherPath \o AppPath, <<"5", "m">>, 0),
     Rec(6000, "504", "ruby", <<"/", "usr", "/", "local">>, <<"5", "m">>, 0),
     Rec(7000, "505", "ruby", <<"/", "tmp">>, <<"5", "m">>, 0)}

MaxUnifiedPorts == 2

\* Lists of distinct records, as the parser and the resolver leave them
UnifiedLists ==
    UNION {{l \in [1..n -> UnifiedRecords] : \A i, j \in 1..n : l[i] = l[j] => i = j} :
              n \in 0..MaxUnifiedPorts}

InitUnified ==
    /\ uInput \in [ports : UnifiedLists, homeOk : BOOLEAN, storage : Storages,
                   open : OpenResults, exists : ExistSets]
    /\ uRuns = <<>>
    /\ UptimeIdle /\ MainIdle /\ LedgerStart /\ RestIdle

\* One run of displayUnified; a second run reads the same listing, the same
\* processes and the same workspaces at the same time
RunUnified ==
    /\ Len(uRuns) < 2
    /\ \E res \in displayUnified(uInput.ports, uInput.homeOk, uInput.storage,
                                 uInput.open, uInput.exists, now) :
         uRuns' = Append(uRuns, res)
    /\ UNCHANGED <<uInput, uptimeVars, mainVars, ledgerVars, restVars>>

NextUnified == RunUnified

SpecUnified == InitUnified /\ [][NextUnified]_vars

(*--------------------------- isUserPort ---------------------------------*)
\* The four earlier groups of variables
baseVars == <<uptimeVars, mainVars, ledgerVars, unifiedVars>>

LibraryToolsPath == Home \o <<"/", "Library", "Tools", "/", "app">>

\* Working directories: the two sentinels, a project, the system
\* directories with and without a separator after their name, the user's
\* Library directory, a sibling whose name starts with Library, and paths
\* written with a tilde
ClassifierPaths ==
    {NA, <<"/">>, AppPath, OtherPath,
     <<"/", "opt", "/", "x">>, <<"/", "opt">>, <<"/", "opt", "ional", "/", "x">>,
     <<"/", "usr", "/", "local">>, <<"/", "System", "/", "x">>,
     <<"/", "Library", "/", "x">>, OtherPath \o <<"/", "usr", "/", "x">>,
     Home \o <<"/", "Library">>, Home \o <<"/", "Library", "/", "Caches">>,
     LibraryToolsPath,
     <<"~", "/", "Library", "/", "x">>, <<"~", "/", "app">>}

ClassifierCommands == {"node", "redis-ser", "redis-server"}

\* Records that differ in every field the classifier does not read as well
ClassifierRecords ==
    {Rec(port, pid, cmd, path, <<"5", "m">>, secs) :
        port \in {3000, 8080}, pid \in {"501", "502"}, cmd \in ClassifierCommands,
        path \in ClassifierPaths, secs \in {0}}

InitClassifier ==
    /\ clsInput \in ClassifierRecords /\ clsResult = None
    /\ UptimeIdle /\ MainIdle /\ LedgerStart /\ UnifiedIdle /\ CliIdle /\ WritersIdle
    /\ UiIdle

\* The filter loops of main and displayUnified, and displayHistory, call
\* isUserPort on a record
IsUserPortCall ==
    /\ clsResult = None
    /\ clsResult' = [user |-> isUserPort(clsInput)]
    /\ UNCHANGED <<clsInput, baseVars, cliVars, writerVars, uiVars>>

NextClassifier == IsUserPortCall

SpecClassifier == InitClassifier /\ [][NextClassifier]_vars

(*------------------- the discovery ledger read back ---------------------*)
\* Records logged by runs with and without --all: two projects, a process
\* in a system directory and an excluded command
HistoryRecords ==
    {Rec(3000, "501", "node", AppPath, <<"0", "m">>, 0),
     Rec(8080, "502", "ruby", WebPath, <<"0", "m">>, 2),
     Rec(5000, "503", "node", <<"/", "usr", "/", "local">>, <<"0", "m">>, 1),
     Rec(6379, "504", "redis-ser", AppPath, <<"0", "m">>, 0)}

HistoryLists ==
    UNION {{l \in [1..n -> HistoryRecords] : \A i, j \in 1..n : l[i] = l[j] => i = j} :
              n \in 0..MaxPorts}

\* --history of the revisions that print the discovery ledger.  count is
\* the number of entries written when the ledger was read
ShowDiscoveryHistory ==
    /\ \E canRead \in BOOLEAN :
         LET h == displayHistory(portLog, canRead)
         IN  view' = [kind |-> "discovery-history", canRead |-> canRead,
                      count |-> Len(written), entries |-> h.entries, out |-> h.rows]
    /\ UNCHANGED <<now, portLog, wsLog, lastOp, written, uptimeVars, mainVars,
                   unifiedVars, restVars>>

NextHistory ==
    \/ Tick
    \/ RunLogNewPortsOn(HistoryLists)
    \/ ShowDiscoveryHistory

SpecHistory == InitLedger /\ [][NextHistory]_vars

(*------------------------- an invocation --------------------------------*)
\* The flags main dispatches on.  A string flag that is not given is empty
CliFlags ==
    [logCloseWorkspace : {<<>>, WsPathA}, logOpenWorkspace : {<<>>, WsPathB},
     showUnified : BOOLEAN, showCursor : BOOLEAN, showClaude : BOOLEAN,
     showClaudeHistory : BOOLEAN, showCursorHistory : BOOLEAN,
     showHistory : BOOLEAN, interactive : BOOLEAN]

DispatchOpenFirst(f) ==
    IF f.logOpenWorkspace # <<>> THEN "log-open"
    ELSE IF f.logCloseWorkspace # <<>> THEN "log-close"
    ELSE "ports"

\* The branch of main an invocation takes: the tests of main, in order
Dispatch(f) ==
    IF f.logCloseWorkspace # <<>> THEN "log-close"
    ELSE IF f.logOpenWorkspace # <<>> THEN "log-open"
    ELSE IF f.showUnified THEN "unified"
    ELSE IF f.showCursor THEN "cursor"
    ELSE IF f.showClaude THEN "claude"
    ELSE IF f.showClaudeHistory THEN "claude-history"
    ELSE IF f.showCursorHistory THEN "cursor-history"
    ELSE IF f.showHistory THEN "history"
    ELSE "ports"

\* What is kept of a finished invocation: scanned is whether lsof -i was
\* run, failed the sources that could not be obtained
Ran(f, exit, scanned, failed) ==
    [flags |-> f, branch |-> Dispatch(f), exit |-> exit, scanned |-> scanned,
     failed |-> failed]

\* The resolved records of the invocations that scan
CliLists ==
    {<<>>,
     <<Rec(3000, "501", "node", AppPath, <<"0", "m">>, 0)>>,
     <<Rec(8080, "501", "node", AppPath, <<"0", "m">>, 1),
       Rec(3000, "504", "ruby", NA, NA, 0)>>}

\* The ledgers an invocation may find: empty, or written by earlier
\* invocations
InitCli ==
    /\ now = 20000 /\ view = None
    /\ \E list \in CliLists :
         /\ portLog = logNewPorts(<<>>, list, 19990, TRUE)
         /\ written = NewlyWritten(<<>>, list, 19990, TRUE)
    /\ \E before \in {"none", "close", "open"} :
         /\ wsLog = IF before = "none" THEN <<>>
                    ELSE appendWorkspaceEvent(<<>>, 19990, before, WsPathA, TRUE)
         /\ lastOp = [q \in WsPaths |-> IF q = WsPathA THEN before ELSE "none"]
    /\ UptimeIdle /\ MainIdle /\ UnifiedIdle /\ RestIdle

\* The branches that touch nothing but the view
OnlyView ==
    UNCHANGED <<now, portLog, wsLog, lastOp, written, uptimeVars, mainVars,
                unifiedVars, classVars, writerVars, uiVars>>

\* --log-close P.  view holds what the last invocation printed
CliLogClose ==
    /\ cli = None
    /\ \E f \in CliFlags, canOpen \in BOOLEAN :
         /\ Dispatch(f) = "log-close"
         /\ wsLog' = appendWorkspaceEvent(wsLog, now, "close", f.logCloseWorkspace, canOpen)
         /\ lastOp' = IF canOpen THEN [lastOp EXCEPT ![f.logCloseWorkspace] = "close"]
                      ELSE lastOp
         /\ cli' = Ran(f, IF canOpen THEN 0 ELSE 1, FALSE,
                       IF canOpen THEN {} ELSE {"workspace-ledger"})
    /\ view' = None
    /\ UNCHANGED <<now, portLog, written, uptimeVars, mainVars, unifiedVars, classVars,
                   writerVars, uiVars>>

\* --log-open P
CliLogOpen ==
    /\ cli = None
    /\ \E f \in CliFlags, canOpen \in BOOLEAN :
         /\ Dispatch(f) = "log-open"
         /\ wsLog' = appendWorkspaceEvent(wsLog, now, "open", f.logOpenWorkspace, canOpen)
         /\ lastOp' = IF canOpen THEN [lastOp EXCEPT ![f.logOpenWorkspace] = "open"]
                      ELSE lastOp
         /\ cli' = Ran(f, IF canOpen THEN 0 ELSE 1, FALSE,
                       IF canOpen THEN {} ELSE {"workspace-ledger"})
    /\ view' = None
    /\ UNCHANGED <<now, portLog, written, uptimeVars, mainVars, unifiedVars, classVars,
                   writerVars, uiVars>>

\* --unified: displayUnified, which exits with 1 when lsof fails
CliUnified ==
    /\ cli = None
    /\ \E f \in CliFlags, lsofOk \in BOOLEAN, list \in CliLists,
          storage \in RunStorages, open \in RunOpenResults :
         /\ Dispatch(f) = "unified"
         /\ IF ~lsofOk
            THEN /\ view' = None
                 /\ cli' = Ran(f, 1, TRUE, {"listing"})
            ELSE /\ view' \in
                      {[kind |-> "unified", out |-> res.items] :
                          res \in displayUnified(list, TRUE, storage, open,
                                                 {AppPath, WebPath, OtherPath}, now)}
                 /\ cli' = Ran(f, 0, TRUE,
                               IF storage.ok /\ open.ok THEN {} ELSE {"editor-state"})
    /\ OnlyView

\* --cursor: displayCursorWindows lists the open windows, or says that
\* there are none
CliCursor ==
    /\ cli = None
    /\ \E f \in CliFlags, open \in RunOpenResults :
         /\ Dispatch(f) = "cursor"
         /\ view' = [kind |-> "cursor", out |-> open.data]
         /\ cli' = Ran(f, 0, FALSE, IF open.ok THEN {} ELSE {"editor-state"})
    /\ OnlyView

\* --claude: displayClaudeSessions ignores the error of loadClaudeHistory
CliClaude ==
    /\ cli = None
    /\ \E f \in CliFlags, claude \in {Failure(<<>>)} \cup {Success(c) : c \in ClaudeLists} :
         /\ Dispatch(f) = "claude"
         /\ view' = [kind |-> "claude", out |-> <<>>]
         /\ cli' = Ran(f, 0, FALSE, IF claude.ok THEN {} ELSE {"assistant-history"})
    /\ OnlyView

\* --claude-history: displayClaudeHistory exits with 1 when
\* loadClaudeHistory returns an error
CliClaudeHistory ==
    /\ cli = None
    /\ \E f \in CliFlags, claude \in {Failure(<<>>)} \cup {Success(c) : c \in ClaudeLists} :
         /\ Dispatch(f) = "claude-history"
         /\ IF ~claude.ok
            THEN /\ view' = None
                 /\ cli' = Ran(f, 1, FALSE, {"assistant-history"})
            ELSE /\ view' = [kind |-> "claude-history", out |-> claude.data]
                 /\ cli' = Ran(f, 0, FALSE, {})
    /\ OnlyView

\* --cursor-history
CliCursorHistory ==
    /\ cli = None
    /\ \E f \in CliFlags, canRead \in BOOLEAN, open \in RunOpenResults :
         /\ Dispatch(f) = "cursor-history"
         /\ view' \in
              {[kind |-> "cursor-history", canRead |-> canRead, open |-> open.data,
                exists |-> WsPaths, recents |-> <<>>, claude |-> <<>>,
                limit |-> 10, out |-> out] :
                  out \in displayCursorHistory(wsLog, canRead, open.data, WsPaths,
                                               <<>>, 10)}
         /\ cli' = Ran(f, 0, FALSE,
                       (IF canRead THEN {} ELSE {"workspace-ledger"})
                           \cup (IF open.ok THEN {} ELSE {"editor-state"}))
    /\ OnlyView

\* --history: displayWorkspaceHistory takes an assistant history that
\* cannot be loaded as empty
CliHistory ==
    /\ cli = None
    /\ \E f \in CliFlags, canRead \in BOOLEAN,
          claude \in {Failure(<<>>)} \cup {Success(c) : c \in ClaudeLists} :
         /\ Dispatch(f) = "history"
         /\ view' \in
              {[kind |-> "history", canRead |-> canRead, open |-> {},
                exists |-> WsPaths, recents |-> <<>>, claude |-> claude.data,
                limit |-> 10, out |-> out] :
                  out \in displayWorkspaceHistory(claude.data, wsLog, canRead, {},
                                                  WsPaths, 10)}
         /\ cli' = Ran(f, 0, FALSE,
                       (IF canRead THEN {} ELSE {"workspace-ledger"})
                           \cup (IF claude.ok THEN {} ELSE {"assistant-history"}))
    /\ OnlyView

\* The default mode: the listing, the discovery ledger, then the table or
\* the interactive program
CliPorts ==
    /\ cli = None
    /\ \E f \in CliFlags, lsofOk \in BOOLEAN, list \in CliLists, canOpen \in BOOLEAN,
          uiOk \in BOOLEAN :
         /\ Dispatch(f) = "ports"
         /\ IF ~lsofOk
            THEN /\ view' = None
                 /\ cli' = Ran(f, 1, TRUE, {"listing"})
                 /\ UNCHANGED <<portLog, written>>
            ELSE LET filtered == SelectSeqBy(list, {r \in Range(list) : isUserPort(r)})
                     failedLog == IF canOpen THEN {} ELSE {"discovery-ledger"}
                 IN  /\ portLog' = logNewPorts(portLog, filtered, now, canOpen)
                     /\ written' = written \o NewlyWritten(portLog, filtered, now, canOpen)
                     /\ IF f.interactive
                        THEN /\ view' = [kind |-> "interactive", out |-> list]
                             /\ cli' = Ran(f, IF uiOk THEN 0 ELSE 1, TRUE,
                                           failedLog \cup
                                               (IF uiOk THEN {} ELSE {"interactive"}))
                        ELSE /\ \E sorted \in SortResults(filtered, "uptime") :
                                  view' = [kind |-> "table", out |-> displayPorts(sorted)]
                             /\ cli' = Ran(f, 0, TRUE, failedLog)
    /\ UNCHANGED <<now, wsLog, lastOp, uptimeVars, mainVars, unifiedVars, classVars,
                   writerVars, uiVars>>

NextCli ==
    \/ CliLogClose
    \/ CliLogOpen
    \/ CliUnified
    \/ CliCursor
    \/ CliClaude
    \/ CliClaudeHistory
    \/ CliCursorHistory
    \/ CliHistory
    \/ CliPorts

SpecCli == InitCli /\ [][NextCli]_vars

(*------------------- concurrent calls of logNewPorts --------------------*)
\* Two invocations of the default mode at the same time
Writers == {1, 2}

WriterLists ==
    {<<Rec(3000, "501", "node", AppPath, <<"0", "m">>, 0)>>,
     <<Rec(3000, "501", "node", AppPath, <<"0", "m">>, 0),
       Rec(8080, "502", "ruby", WebPath, <<"0", "m">>, 1)>>}

InitWriters ==
    /\ LedgerStart /\ UptimeIdle /\ MainIdle /\ UnifiedIdle /\ ClassIdle /\ CliIdle
    /\ UiIdle
    /\ writers = [w \in Writers |->
                     [pc |-> "start", list |-> <<>>, seen |-> {}, at |-> 0, k |-> 1]]

\* os.ReadFile and the loop that fills seenCombos, then os.OpenFile and
\* time.Now(): the call has read the ledger and has not written yet
ReadLedger(w) ==
    /\ writers[w].pc = "start"
    /\ \E list \in WriterLists, canOpen \in BOOLEAN :
         writers' = [writers EXCEPT ![w] =
                        [pc |-> IF canOpen THEN "write" ELSE "done", list |-> list,
                         seen |-> LoadSeenCombos(portLog), at |-> now, k |-> 1]]
    /\ UNCHANGED <<baseVars, classVars, cliVars, uiVars>>

\* One round of the loop over the records: f.WriteString appends the line
\* of a record whose key the call has not seen
WriteRecord(w) ==
    /\ writers[w].pc = "write"
    /\ LET me == writers[w]
           r == me.list[me.k]
           skip == r.Path = NA \/ r.Path = <<"/">> \/ ComboKey(r) \in me.seen
           pcNext == IF me.k = Len(me.list) THEN "done" ELSE "write"
       IN  /\ portLog' = IF skip THEN portLog
                         ELSE AppendLine(portLog, DiscoveryLine(me.at, r))
           /\ written' = IF skip THEN written
                         ELSE Append(written, WrittenEntry(me.at, r))
           /\ writers' = [writers EXCEPT ![w] =
                  [me EXCEPT !.pc = pcNext, !.k = me.k + 1,
                             !.seen = IF skip THEN me.seen
                                      ELSE MarkSeen(me.seen, ComboKey(r))]]
    /\ UNCHANGED <<now, wsLog, lastOp, view, uptimeVars, mainVars, unifiedVars,
                   classVars, cliVars, uiVars>>

WriterReads == \E w \in Writers : ReadLedger(w)

WriterWrites == \E w \in Writers : WriteRecord(w)

\* The two calls, two --log-close of one path, and the two views
NextWriters ==
    \/ WriterReads
    \/ WriterWrites
    \/ Tick
    \/ ShowDiscoveryHistory
    \/ LogWorkspace("close", {WsPathA}, MaxLedgerEvents)
    \/ ShowCursorHistory({{}}, {WsPaths}, {<<>>, <<WsPathA>>}, {10})

SpecWriters == InitWriters /\ [][NextWriters]_vars

(*--------------------------- parseOutput --------------------------------*)
\* A port of 19 digits, which does not fit an int
DigitsTooLong == [i \in 1..19 |-> "9"]

\* The lines of the parser's listings: those of ListingLines, a line whose
\* port overflows, a line whose address names the service, and a line of
\* eleven fields whose address is the tenth
ParserLines ==
    ListingLines \cup
    {ListenLine("node", "501", "alice", "23u", Addr("*", DigitsTooLong)),
     ListenLine("node", "501", "alice", "23u", <<"*", ":", "http">>),
     <<W("node"), W("504"), W("alice"), W("23u"), W("IPv4"), W("0x1"), W("0t0"),
       W("TCP"), W("extra"), Addr("*", Digits8080), W(ListenMarker)>>}

ParserListings == UNION {[1..n -> ParserLines] : n \in 0..MaxLines}

InitParser ==
    /\ lsofOutput \in ParserListings /\ mode = "main" /\ pc = "listing"
    /\ ports = <<>> /\ idx = 1 /\ pathCache = <<>> /\ uptimeCache = <<>>
    /\ uptimeSecondsCache = <<>> /\ cwdLookups = <<>> /\ uptimeLookups = <<>>
    /\ output = None /\ degraded = {}
    /\ UptimeIdle /\ LedgerStart /\ UnifiedIdle /\ RestIdle

NextParser == ParseListing

SpecParser == InitParser /\ [][NextParser]_vars

(*----------------- the reduction of the workspace ledger ----------------*)
\* Ledgers in any line order: the lines are not required to be in the
\* order of their timestamps
ReductionTimes == {19990, 19991, 19992}

ReductionLines ==
    {WorkspaceLine(t, e, q) : t \in ReductionTimes, e \in {"close", "open"}, q \in WsPaths}

ReductionLogs == UNION {[1..n -> ReductionLines] : n \in 0..MaxEvents}

\* --limit is an int flag: zero and negative values are accepted
ReductionLimits == {-1, 0, 1, 2, 10}

\* The operation of the last line written for a path
LastWrittenOp(log, q) ==
    LET events == readWorkspaceLog(log)
        mine == {i \in 1..Len(events) : events[i].Path = q}
    IN  IF mine = {} THEN "none"
        ELSE events[CHOOSE i \in mine : \A j \in mine : j <= i].Event[1]

InitReduction ==
    /\ now = 20000 /\ portLog = <<>> /\ written = <<>> /\ view = None
    /\ wsLog \in ReductionLogs
    /\ lastOp = [q \in WsPaths |-> LastWrittenOp(wsLog, q)]
    /\ UptimeIdle /\ MainIdle /\ UnifiedIdle /\ RestIdle

NextReduction ==
    \/ ShowCursorHistory({{}}, {WsPaths}, RecentLists, ReductionLimits)
    \/ ShowWorkspaceHistory({{}}, {WsPaths}, ClaudeLists, ReductionLimits)

SpecReduction == InitReduction /\ [][NextReduction]_vars

(*------------------------ one discovery logging -------------------------*)
\* The ledger a run finds: empty, or written by an earlier run
InitDiscovery ==
    /\ now = 20000 /\ view = None /\ wsLog = <<>>
    /\ lastOp = [q \in WsPaths |-> "none"]
    /\ \E list \in RecordLists :
         /\ portLog = logNewPorts(<<>>, list, 19990, TRUE)
         /\ written = NewlyWritten(<<>>, list, 19990, TRUE)
    /\ UptimeIdle /\ MainIdle /\ UnifiedIdle /\ RestIdle

\* One call of logNewPorts; the view keeps the records it was given, the
\* ledger it found and time.Now()
LogNewPortsCall ==
    /\ view = None
    /\ \E list \in RecordLists, canOpen \in BOOLEAN :
         /\ portLog' = logNewPorts(portLog, list, now, canOpen)
         /\ written' = written \o NewlyWritten(portLog, list, now, canOpen)
         /\ view' = [kind |-> "discovery-run", list |-> list, canOpen |-> canOpen,
                     before |-> portLog, at |-> now]
    /\ UNCHANGED <<now, wsLog, lastOp, uptimeVars, mainVars, unifiedVars, restVars>>

NextDiscovery ==
    \/ Tick
    \/ LogNewPortsCall

SpecDiscovery == InitDiscovery /\ [][NextDiscovery]_vars

(*------------------------ the ports of a listing ------------------------*)
\* Listening lines whose port digits are 0, 3000, 65535 and 70000
PortRangeLines ==
    {ListenLine("node", "501", "alice", "23u", Addr("*", d)) :
        d \in {<<"0">>, Digits3000, <<"6", "5", "5", "3", "5">>,
               <<"7", "0", "0", "0", "0">>}}

PortRangeListings == UNION {[1..n -> PortRangeLines] : n \in 0..MaxLines}

InitPortRange ==
    /\ lsofOutput \in PortRangeListings /\ mode = "main" /\ pc = "listing"
    /\ ports = <<>> /\ idx = 1 /\ pathCache = <<>> /\ uptimeCache = <<>>
    /\ uptimeSecondsCache = <<>> /\ cwdLookups = <<>> /\ uptimeLookups = <<>>
    /\ output = None /\ degraded = {}
    /\ UptimeIdle /\ LedgerStart /\ UnifiedIdle /\ RestIdle

SpecPortRange == InitPortRange /\ [][ParseListing]_vars

(***************************************************************************)
(* The interactive program (interactive.go).  A session is the model of    *)
(* the program: ports, cursor (from 0), showAll, message, and hidden, the  *)
(* HiddenPorts of the configuration it loaded; the keys are the pairs      *)
(* (port, pid) of "port-pid".  saved is whether os.WriteFile succeeded:    *)
(* Update ignores the error of config.save().                              *)
(***************************************************************************)
NoMessage == [kind |-> "none", port |-> 0, pid |-> <<>>]

Message(kind, r) == [kind |-> kind, port |-> r.Port, pid |-> r.PID]

\* initialModel: the cursor at 0, the configuration loaded from the file
initialModel(list, file) ==
    [ports |-> list, cursor |-> 0, hidden |-> file, showAll |-> FALSE,
     message |-> NoMessage]

\* The ranges of ports shown unless showAll
InShownRange(port) ==
    \/ port >= 3000 /\ port < 4000
    \/ port >= 4000 /\ port < 5000
    \/ port >= 8000 /\ port < 9000

getVisiblePorts(m) ==
    SelectSeqBy(m.ports,
        {r \in Range(m.ports) :
            PortPidKey(r) \notin m.hidden /\ (m.showAll \/ InShownRange(r.Port))})

\* The record under the cursor
Selected(m) == getVisiblePorts(m)[m.cursor + 1]

\* len(visiblePorts) > 0 && m.cursor < len(visiblePorts)
HasSelection(m) ==
    Len(getVisiblePorts(m)) > 0 /\ m.cursor < Len(getVisiblePorts(m))

\* The cursor left where it is after a removal
AdjustCursorNever(m) == m

\* if m.cursor >= len(m.getVisiblePorts()) && m.cursor > 0 { m.cursor-- }
AdjustCursor(m) ==
    IF m.cursor >= Len(getVisiblePorts(m)) /\ m.cursor > 0
    THEN [m EXCEPT !.cursor = m.cursor - 1]
    ELSE m

\* Every record of the port removed, whatever its pid
removePortByPort(list, toRemove) ==
    SelectSeqBy(list, {p \in Range(list) : p.Port # toRemove.Port})

removePort(list, toRemove) ==
    SelectSeqBy(list, {p \in Range(list) :
                          p.Port # toRemove.Port \/ p.PID # toRemove.PID})

\* config.save(): the file after the call
save(file, hidden, saved) == IF saved THEN hidden ELSE file

\* case "up", "k"
KeyUp ==
    /\ ui # None
    /\ ui' = IF ui.cursor > 0 THEN [ui EXCEPT !.cursor = ui.cursor - 1] ELSE ui
    /\ UNCHANGED <<configFile, hiddenSince, baseVars, classVars, cliVars, writerVars>>

\* case "down", "j"
KeyDown ==
    /\ ui # None
    /\ ui' = IF ui.cursor < Len(getVisiblePorts(ui)) - 1
             THEN [ui EXCEPT !.cursor = ui.cursor + 1] ELSE ui
    /\ UNCHANGED <<configFile, hiddenSince, baseVars, classVars, cliVars, writerVars>>

\* case "h": hide the selected port
KeyHide ==
    /\ ui # None
    /\ IF HasSelection(ui)
       THEN \E saved \in BOOLEAN :
              LET port == Selected(ui)
                  hidden == ui.hidden \cup {PortPidKey(port)}
              IN  /\ ui' = AdjustCursor([ui EXCEPT !.hidden = hidden,
                                                   !.message = Message("hidden", port)])
                  /\ configFile' = save(configFile, hidden, saved)
                  /\ hiddenSince' = hiddenSince \cup {PortPidKey(port)}
       ELSE UNCHANGED <<ui, configFile, hiddenSince>>
    /\ UNCHANGED <<baseVars, classVars, cliVars, writerVars>>

\* case "u": unhide all
KeyUnhideAll ==
    /\ ui # None
    /\ \E saved \in BOOLEAN :
         /\ ui' = [ui EXCEPT !.hidden = {}, !.cursor = 0,
                             !.message = [NoMessage EXCEPT !.kind = "unhidden"]]
         /\ configFile' = save(configFile, {}, saved)
         /\ hiddenSince' = {}
    /\ UNCHANGED <<baseVars, classVars, cliVars, writerVars>>

\* case "a": toggle show all ports
KeyToggleAll ==
    /\ ui # None
    /\ ui' = [ui EXCEPT !.showAll = ~ui.showAll, !.cursor = 0,
                        !.message = [NoMessage EXCEPT !.kind =
                                        IF ui.showAll THEN "filtered" ELSE "all"]]
    /\ UNCHANGED <<configFile, hiddenSince, baseVars, classVars, cliVars, writerVars>>

\* case "K": kill the process of the selected port; killed is whether the
\* kill command succeeded
KeyKill ==
    /\ ui # None
    /\ IF HasSelection(ui)
       THEN \E killed \in BOOLEAN :
              LET port == Selected(ui)
              IN  ui' = IF ~killed
                        THEN [ui EXCEPT !.message = Message("kill-failed", port)]
                        ELSE AdjustCursor([ui EXCEPT
                                 !.message = Message("killed", port),
                                 !.ports = removePort(ui.ports, port)])
       ELSE UNCHANGED ui
    /\ UNCHANGED <<configFile, hiddenSince, baseVars, classVars, cliVars, writerVars>>

\* case "o": open the URL of the selected port in the browser
KeyOpen ==
    /\ ui # None
    /\ IF HasSelection(ui)
       THEN \E opened \in BOOLEAN :
              ui' = [ui EXCEPT !.message =
                        Message(IF opened THEN "opened" ELSE "open-failed", Selected(ui))]
       ELSE UNCHANGED ui
    /\ UNCHANGED <<configFile, hiddenSince, baseVars, classVars, cliVars, writerVars>>

\* The records of a session: two processes on one port, a second port of
\* the first process, a port outside the shown ranges
UiRecords ==
    {Rec(3000, "501", "node", AppPath, <<"0", "m">>, 0),
     Rec(3000, "502", "node", AppPath, <<"0", "m">>, 2),
     Rec(8080, "501", "node", WebPath, <<"0", "m">>, 1),
     Rec(5000, "503", "ruby", WebPath, <<"0", "m">>, 0)}

MaxUiPorts == 3

\* Lists of unique (port, pid), as the parser leaves them
UiLists ==
    UNION {{l \in [1..n -> UiRecords] : \A i, j \in 1..n : l[i] = l[j] => i = j} :
              n \in 0..MaxUiPorts}

\* A session started on a list, with the configuration file it finds
InitInteractive ==
    /\ configFile \in HiddenSets
    /\ \E list \in UiLists : ui = initialModel(list, configFile)
    /\ hiddenSince = {}
    /\ UptimeIdle /\ MainIdle /\ LedgerStart /\ UnifiedIdle
    /\ ClassIdle /\ CliIdle /\ WritersIdle

NextInteractive ==
    \/ KeyUp
    \/ KeyDown
    \/ KeyHide
    \/ KeyUnhideAll
    \/ KeyToggleAll
    \/ KeyKill
    \/ KeyOpen

SpecInteractive == InitInteractive /\ [][NextInteractive]_vars

(*------------------- hidden ports over sessions and runs ----------------*)
\* The processes of the machine, resolved, the same for every run
HiddenRunLists ==
    {<<Rec(3000, "501", "node", AppPath, <<"0", "m">>, 0)>>,
     <<Rec(3000, "501", "node", AppPath, <<"0", "m">>, 0),
       Rec(8080, "502", "node", WebPath, <<"0", "m">>, 2)>>}

\* A run's output, with the pairs hidden and the configuration file when
\* it ran
RunView(kind, out, logged) ==
    [kind |-> kind, asked |-> hiddenSince, file |-> configFile, out |-> out,
     logged |-> logged]

\* main up to the discovery ledger: the classifier unless --all, the hidden
\* ports of the configuration file
FilteredPorts(showAllPorts) ==
    filterHiddenPorts(
        IF showAllPorts THEN ports
        ELSE SelectSeqBy(ports, {r \in Range(ports) : isUserPort(r)}),
        configFile)

\* A run with -i: the ledger is written, then the session starts on all
\* the ports, longest uptime first
StartInteractive ==
    /\ ui = None
    /\ \E showAllPorts \in BOOLEAN, canOpen \in BOOLEAN :
         LET filtered == FilteredPorts(showAllPorts)
         IN  /\ portLog' = logNewPorts(portLog, filtered, now, canOpen)
             /\ written' = written \o NewlyWritten(portLog, filtered, now, canOpen)
             /\ \E sorted \in SortResults(ports, "uptime") :
                  ui' = initialModel(sorted, configFile)
             /\ view' = RunView("interactive", <<>>,
                                NewlyWritten(portLog, filtered, now, canOpen))
    /\ UNCHANGED <<now, wsLog, lastOp, configFile, hiddenSince, uptimeVars, mainVars,
                   unifiedVars, classVars, cliVars, writerVars>>

\* case "ctrl+c", "q"
KeyQuit ==
    /\ ui # None
    /\ ui' = None
    /\ UNCHANGED <<configFile, hiddenSince, baseVars, classVars, cliVars, writerVars>>

\* A run of the default mode without -i
RunPorts ==
    /\ ui = None
    /\ \E showAllPorts \in BOOLEAN, jsonOutput \in BOOLEAN, canOpen \in BOOLEAN :
         LET filtered == FilteredPorts(showAllPorts)
         IN  /\ portLog' = logNewPorts(portLog, filtered, now, canOpen)
             /\ written' = written \o NewlyWritten(portLog, filtered, now, canOpen)
             /\ \E sorted \in SortResults(filtered, "uptime") :
                  view' = RunView(IF jsonOutput THEN "json" ELSE "table",
                                  IF jsonOutput THEN displayPortsJSON(sorted)
                                  ELSE displayPorts(sorted),
                                  NewlyWritten(portLog, filtered, now, canOpen))
    /\ UNCHANGED <<now, wsLog, lastOp, uiVars, uptimeVars, mainVars,
                   unifiedVars, classVars, cliVars, writerVars>>

\* A run with --unified: displayUnified reads no configuration
RunUnifiedView ==
    /\ ui = None
    /\ \E storage \in {Success(<<>>), Success(<<[Path |-> AppPath, ModTime |-> 19990]>>)} :
         view' \in {RunView("unified", res.items, <<>>) :
                       res \in displayUnified(ports, TRUE, storage, Failure({}),
                                              {AppPath, WebPath}, now)}
    /\ UNCHANGED <<now, portLog, wsLog, lastOp, written, uiVars, uptimeVars, mainVars,
                   unifiedVars, classVars, cliVars, writerVars>>

InitHidden ==
    /\ ui = None /\ configFile = {} /\ hiddenSince = {}
    /\ ports \in HiddenRunLists
    /\ lsofOutput = <<>> /\ mode = "main" /\ pc = "idle" /\ idx = 1
    /\ pathCache = <<>> /\ uptimeCache = <<>> /\ uptimeSecondsCache = <<>>
    /\ cwdLookups = <<>> /\ uptimeLookups = <<>> /\ output = None /\ degraded = {}
    /\ UptimeIdle /\ LedgerStart /\ UnifiedIdle /\ ClassIdle /\ CliIdle /\ WritersIdle

NextHidden ==
    \/ StartInteractive
    \/ KeyDown
    \/ KeyHide
    \/ KeyUnhideAll
    \/ KeyQuit
    \/ RunPorts
    \/ RunUnifiedView

SpecHidden == InitHidden /\ [][NextHidden]_vars

(***************************************************************************)
(* C1: over any sequence of runs of logNewPorts the discovery ledger never *)
(* holds two lines of one (port, workingDirectory), and a run appends no   *)
(* line for a combination the ledger held when the run started.            *)
(***************************************************************************)
LinePortAndDir(line) == <<Split(line, TAB)[2], Split(line, TAB)[5]>>

C1_LedgerAppendOnce ==
    [][portLog' # portLog =>
          /\ \A i, j \in 1..Len(portLog') :
                LinePortAndDir(portLog'[i]) = LinePortAndDir(portLog'[j]) => i = j
          /\ \A i \in (Len(portLog) + 1)..Len(portLog') :
                \A j \in 1..Len(portLog) :
                    LinePortAndDir(portLog'[i]) # LinePortAndDir(portLog[j])]_vars

\* Both combinations are in the ledger, the one of port 3000 logged from the
\* second of the two processes that share it
C1_Witness ==
    /\ Len(portLog) = 2
    /\ \E i \in 1..2 :
         /\ LinePortAndDir(portLog[i]) = <<Digits3000, AppPath>>
         /\ Split(portLog[i], TAB)[3] = W("502")

(***************************************************************************)
(* C2: after any sequence of --log-close / --log-open the state derived    *)
(* from the ledger for a path is the kind of the operation performed last  *)
(* on it, two operations within one clock second included; a path whose    *)
(* last operation is an open is not in the closed-workspace view the       *)
(* ledger gives.                                                           *)
(***************************************************************************)
C2_StateFollowsLastOperation ==
    LET last == LastEvents(readWorkspaceLog(wsLog))
    IN  \A q \in WsPaths :
            /\ lastOp[q] # "none" =>
                   (q \in DOMAIN last /\ last[q].Event = <<lastOp[q]>>)
            /\ (/\ lastOp[q] = "open" /\ view # None /\ view.canRead
                /\ view.recents = <<>>)
                   => \A i \in 1..Len(view.out) :
                          IF view.kind = "history" THEN view.out[i].Path # q
                          ELSE view.out[i] # q

(***************************************************************************)
(* C3 (as amended): every path the closed-workspace history emits is not   *)
(* reported open and exists on disk, and is either a path for which the    *)
(* reduction of the ledger keeps a close event (the first written of the   *)
(* path's events of greatest timestamp) or a folder of the editor's        *)
(* recently-opened list; the cursor entries of the combined history are    *)
(* all of the first kind.                                                  *)
(***************************************************************************)
\* The reduction keeps a close for q: the first written event of q with the
\* greatest timestamp is a close
KeepsClose(events, q) ==
    \E i \in 1..Len(events) :
        /\ events[i].Path = q /\ events[i].Event = <<"close">>
        /\ \A j \in 1..Len(events) :
              events[j].Path = q =>
                  \/ events[j].Timestamp < events[i].Timestamp
                  \/ (events[j].Timestamp = events[i].Timestamp /\ j >= i)

\* The paths of the cursor entries of a view
EmittedCursorPaths ==
    IF view.kind = "history"
    THEN {view.out[i].Path : i \in {k \in 1..Len(view.out) : view.out[k].Type = "cursor"}}
    ELSE Range(view.out)

ViewEvents == IF view.canRead THEN readWorkspaceLog(wsLog) ELSE <<>>

LastWrittenIsClose(events, q) ==
    \E i \in 1..Len(events) :
        /\ events[i].Path = q /\ events[i].Event = <<"close">>
        /\ \A j \in (i + 1)..Len(events) : events[j].Path # q

IsPrefixOf(a, b) == Len(a) <= Len(b) /\ SubSeq(b, 1, Len(a)) = a

C4_LedgersAppendOnly ==
    [][IsPrefixOf(portLog, portLog') /\ IsPrefixOf(wsLog, wsLog')]_vars

\* Both ledgers have grown and a view has been printed from them
C4_Witness == Len(portLog) >= 2 /\ Len(wsLog) >= 2 /\ view # None

(***************************************************************************)
(* C5: the records that reach the output hold at most one record per       *)
(* (port, processId), the one of the first line of the listing with that   *)
(* pair; the parser keeps the first occurrences in line order.             *)
(***************************************************************************)
\* Line i of the listing parses to the pair of record r
LineHasKey(i, r) ==
    /\ lsofOutput[i][2] = r.PID
    /\ LineParses(lsofOutput[i])
    /\ DigitsValue(RegexPort(lsofOutput[i])) = r.Port

\* Line i is the first line of the listing that parses to the pair of r
IsFirstLineOf(i, r) == LineHasKey(i, r) /\ \A j \in 1..(i - 1) : ~LineHasKey(j, r)

FirstLineOf(r) == CHOOSE i \in 1..Len(lsofOutput) : IsFirstLineOf(i, r)

FromFirstLine(r) ==
    \E i \in 1..Len(lsofOutput) :
        /\ IsFirstLineOf(i, r)
        /\ r.Command = lsofOutput[i][1] /\ r.User = lsofOutput[i][3]
        /\ r.Address = lsofOutput[i][9]

OnePerKey(list) ==
    \A i, j \in 1..Len(list) : PortPidKey(list[i]) = PortPidKey(list[j]) => i = j

C5_DedupFirstOccurrence ==
    /\ (pc = "resolve" /\ idx = 1) =>
          /\ OnePerKey(ports)
          /\ \A i \in 1..Len(ports) : FromFirstLine(ports[i])
          /\ \A i, j \in 1..Len(ports) :
                i < j => FirstLineOf(ports[i]) < FirstLineOf(ports[j])
    /\ (pc = "done" /\ mode = "main") =>
          /\ OnePerKey(output.rows)
          /\ \A i \in 1..Len(output.rows) : FromFirstLine(output.rows[i])

\* The table shows a pair that two lines of the listing carry, with
\* different addresses
C5_Witness ==
    /\ pc = "done" /\ mode = "main" /\ output.kind = "table"
    /\ \E k \in 1..Len(output.rows), i, j \in 1..Len(lsofOutput) :
         /\ i < j
         /\ LineParses(lsofOutput[i]) /\ LineParses(lsofOutput[j])
         /\ PortPidKey(LineRecord(lsofOutput[i])) = PortPidKey(output.rows[k])
         /\ PortPidKey(LineRecord(lsofOutput[j])) = PortPidKey(output.rows[k])
         /\ lsofOutput[i][9] # lsofOutput[j][9]

(***************************************************************************)
(* C6: within one run each of the two lookups is issued at most once per   *)
(* processId, exactly once for every processId of the records once the     *)
(* resolver loop is over, a failed lookup included, and the records of one *)
(* processId carry the same (workingDirectory, uptimeLabel, uptimeSeconds).*)
(***************************************************************************)
Count(list, x) == Cardinality({i \in 1..Len(list) : list[i] = x})

C6_ResolverCache ==
    /\ \A i \in 1..Len(ports) :
          /\ Count(cwdLookups, ports[i].PID) <= 1
          /\ Count(uptimeLookups, ports[i].PID) <= 1
          /\ i < idx =>
                /\ Count(cwdLookups, ports[i].PID) = 1
                /\ Count(uptimeLookups, ports[i].PID) = 1
    /\ \A i, j \in 1..Len(ports) :
          (i < idx /\ j < idx /\ ports[i].PID = ports[j].PID) =>
              /\ ports[i].Path = ports[j].Path
              /\ ports[i].Uptime = ports[j].Uptime
              /\ ports[i].UptimeSeconds = ports[j].UptimeSeconds

\* Two records share a processId whose lookups failed, and the run made one
\* lookup of each kind
C6_Witness ==
    /\ pc = "done" /\ Len(ports) = 2
    /\ ports[1].PID = ports[2].PID
    /\ ports[1].Path = NA /\ ports[2].Uptime = NA
    /\ Len(cwdLookups) = 1 /\ Len(uptimeLookups) = 1

(***************************************************************************)
(* C7: in the unified view every user-relevant port appears exactly once   *)
(* over all items; under a workspace only if the workspace path is a       *)
(* string prefix of its workingDirectory; in the orphaned bucket if and    *)
(* only if no workspace path of the view is such a prefix.                 *)
(***************************************************************************)
\* The places (item, position) where a result shows the port of record r
PlacesOf(items, r) ==
    {<<i, k>> \in (1..Len(items)) \X (1..Len(uInput.ports)) :
        /\ k <= Len(items[i].Ports)
        /\ items[i].Ports[k].Port = r.Port /\ items[i].Ports[k].PID = r.PID}

WorkspacePathsOf(items) ==
    {items[i].WorkspacePath : i \in {k \in 1..Len(items) : items[k].Type = "workspace"}}

PartitionOk(items, r) ==
    /\ Cardinality(PlacesOf(items, r)) = 1
    /\ \A pl \in PlacesOf(items, r) :
          /\ items[pl[1]].Type = "workspace"
                => HasPrefix(r.Path, items[pl[1]].WorkspacePath)
          /\ items[pl[1]].Type = "orphaned"
                <=> ~\E q \in WorkspacePathsOf(items) : HasPrefix(r.Path, q)

C7_ReconcilerPartition ==
    \A n \in 1..Len(uRuns) :
        uRuns[n].emitted =>
            \A r \in Range(uInput.ports) :
                isUserPort(r) => PartitionOk(uRuns[n].items, r)

\* A result with a port under a workspace and a port in the orphaned bucket
C7_Witness ==
    \E n \in 1..Len(uRuns) :
        /\ uRuns[n].emitted /\ Len(uRuns[n].items) >= 2
        /\ uRuns[n].items[1].Type = "workspace" /\ Len(uRuns[n].items[1].Ports) = 1
        /\ uRuns[n].items[Len(uRuns[n].items)].Type = "orphaned"

(***************************************************************************)
(* C8: two runs of displayUnified on identical ports and workspaces assign *)
(* every port to the same workspace, nested workspaces included.           *)
(***************************************************************************)
\* The (port, pid, workspace) triples of a result
AssignmentOf(res) ==
    UNION {{<<res.items[i].Ports[k].Port, res.items[i].Ports[k].PID,
              IF res.items[i].Type = "workspace" THEN res.items[i].WorkspacePath
              ELSE <<>> >> :
                k \in 1..Len(res.items[i].Ports)} : i \in 1..Len(res.items)}

C8_SameAssignmentEveryRun ==
    Len(uRuns) = 2 => AssignmentOf(uRuns[1]) = AssignmentOf(uRuns[2])

(***************************************************************************)
(* C9: on a well-formed text [[days-]hours:]minutes:seconds formatUptime   *)
(* returns totalSeconds = days*86400 + hours*3600 + minutes*60 + seconds   *)
(* and the label "{totalHours*60+minutes}m" below 3 hours, "{h/24}d" from  *)
(* 200 hours on and "{totalHours}h" between, totalHours = days*24 + hours; *)
(* the four boundary examples of the specification are among the cases.    *)
(***************************************************************************)
ExpectedUptime(d, h, m, s) ==
    LET totalHours == d * 24 + h
    IN  [label |-> IF totalHours < 3 THEN Itoa(totalHours * 60 + m) \o <<"m">>
                   ELSE IF totalHours >= 200 THEN Itoa(totalHours \div 24) \o <<"d">>
                   ELSE Itoa(totalHours) \o <<"h">>,
         seconds |-> d * 86400 + h * 3600 + m * 60 + s]

UptimeExamples ==
    /\ etime = <<"2", ":", "5", "9", ":", "5", "9">>
          => fmtResult = [label |-> <<"1", "7", "9", "m">>, seconds |-> 10799]
    /\ etime = <<"3", ":", "0", "0", ":", "0", "0">>
          => fmtResult = [label |-> <<"3", "h">>, seconds |-> 10800]
    /\ etime = <<"1", "9", "9", ":", "0", "0", ":", "0", "0">>
          => fmtResult = [label |-> <<"1", "9", "9", "h">>, seconds |-> 716400]
    /\ etime = <<"2", "0", "0", ":", "0", "0", ":", "0", "0">>
          => fmtResult = [label |-> <<"8", "d">>, seconds |-> 720000]

C9_FormatUptimeWellFormed ==
    fmtResult # None =>
        /\ UptimeExamples
        /\ \A m \in MinSecValues, s \in MinSecValues :
              /\ etime \in TextsMS(m, s) => fmtResult = ExpectedUptime(0, 0, m, s)
              /\ \A d \in DayValues :
                    etime \in TextsDMS(d, m, s)
                        => fmtResult = ExpectedUptime(d, 0, m, s)
              /\ \A h \in HourValues :
                    /\ etime \in TextsHMS(h, m, s)
                          => fmtResult = ExpectedUptime(0, h, m, s)
                    /\ \A d \in DayValues :
                          etime \in TextsDHMS(d, h, m, s)
                              => fmtResult = ExpectedUptime(d, h, m, s)

\* The 200-hour boundary has been formatted
C9_Witness ==
    /\ etime = <<"2", "0", "0", ":", "0", "0", ":", "0", "0">>
    /\ fmtResult # None
    /\ fmtResult.label = <<"8", "d">>

(***************************************************************************)
(* C10: for every text whose time part does not split on ":" into exactly  *)
(* 2 or 3 groups, a day prefix included, formatUptime returns the text it  *)
(* was given, unchanged, with 0 seconds.                                   *)
(***************************************************************************)
C10_MalformedPassthrough ==
    (fmtResult # None /\ Len(Split(TimeText(etime), ":")) \notin {2, 3})
        => fmtResult = [label |-> etime, seconds |-> 0]

(***************************************************************************)
(* C11: isUserPort(r) is true exactly when the working directory is        *)
(* neither "N/A" nor "/", the command is not in the exclusion list, and    *)
(* the working directory (a leading "~" expanded) begins with no system    *)
(* prefix and does not lie in the user's Library directory; a path that    *)
(* only shares a name prefix with that directory is user relevant.         *)
(***************************************************************************)
\* The path is the user's Library directory or lies below it
InLibraryDirectory(path) ==
    \/ path = Home \o <<"/", "Library">>
    \/ HasPrefix(path, Home \o <<"/", "Library", "/">>)

UserRelevantAsStated(command, path) ==
    /\ path # NA /\ path # <<"/">>
    /\ command \notin ExcludeCommands
    /\ \A prefix \in ExcludePrefixes : ~HasPrefix(ExpandTilde(path), prefix)
    /\ ~InLibraryDirectory(ExpandTilde(path))

C11_ClassifierAsStated ==
    clsResult # None =>
        clsResult.user = UserRelevantAsStated(clsInput.Command, clsInput.Path)

(***************************************************************************)
(* C12 (as amended): reading the discovery ledger back through             *)
(* displayHistory rebuilds, in the order they were written and with the    *)
(* same startedAt, port, processId, command and workingDirectory, exactly  *)
(* those written entries whose command and workingDirectory isUserPort     *)
(* accepts; the table shows them most recent first.                        *)
(***************************************************************************)
\* The entries written when the view read the ledger
WrittenAtView == SubSeq(written, 1, view.count)

HistoryViewed == view # None /\ view.kind = "discovery-history" /\ view.canRead

PortsEmitted == output # None /\ output.kind \in {"table", "json"}

C13_SortOrder ==
    PortsEmitted =>
        \A i, j \in 1..Len(output.rows) :
            i < j =>
                IF output.sortOrder = "port"
                THEN output.rows[i].Port <= output.rows[j].Port
                ELSE output.rows[i].UptimeSeconds >= output.rows[j].UptimeSeconds

\* Two records resolved in ascending uptime order are emitted in the
\* opposite order by the default sort
C13_Witness ==
    /\ PortsEmitted /\ output.sortOrder = "uptime"
    /\ Len(output.rows) = 2 /\ Len(ports) = 2
    /\ ports[1].UptimeSeconds < ports[2].UptimeSeconds
    /\ output.rows[1].UptimeSeconds > output.rows[2].UptimeSeconds

(***************************************************************************)
(* C14: records with equal sort keys (equal port, or equal uptimeSeconds)  *)
(* are emitted in their relative input order.                              *)
(***************************************************************************)
\* The position of an emitted record in the list the run resolved
InputIndex(r) == CHOOSE k \in 1..Len(ports) : ports[k] = r

EqualSortKeys(a, b) ==
    IF output.sortOrder = "port" THEN a.Port = b.Port
    ELSE a.UptimeSeconds = b.UptimeSeconds

C14_StableSort ==
    PortsEmitted =>
        \A i, j \in 1..Len(output.rows) :
            (i < j /\ EqualSortKeys(output.rows[i], output.rows[j])) =>
                InputIndex(output.rows[i]) < InputIndex(output.rows[j])

(***************************************************************************)
(* C15: an invocation exits with code 1 when the primary socket listing    *)
(* cannot be obtained, and with code 0 in every other case in every mode,  *)
(* including when a secondary source (assistant history file, editor       *)
(* state, ledger file) is missing or unreadable.                           *)
(***************************************************************************)
C15_ExitCodes ==
    cli # None =>
        /\ cli.exit \in {0, 1}
        /\ cli.exit = 1 <=> "listing" \in cli.failed

UserPortsOf(resolved) == SelectSeqBy(resolved, {r \in Range(resolved) : isUserPort(r)})

WorkspaceItems(res) == {k \in 1..Len(res.items) : res.items[k].Type = "workspace"}

\* No workspace item, and the orphaned bucket holds every user port
AllOrphaned(res) ==
    LET userPorts == UserPortsOf(uInput.ports)
    IN  /\ res.emitted
        /\ WorkspaceItems(res) = {}
        /\ IF userPorts = <<>> THEN res.items = <<>>
           ELSE /\ Len(res.items) = 1
                /\ res.items[1].Type = "orphaned"
                /\ res.items[1].Ports =
                      [i \in 1..Len(userPorts) |-> PortJSON(userPorts[i])]

C18_NoCombinationTwice ==
    /\ (view # None /\ view.kind = "discovery-history") =>
          \A i, j \in 1..Len(view.out) :
              (view.out[i].Port = view.out[j].Port
                  /\ view.out[i].Path = view.out[j].Path) => i = j
    /\ (view # None /\ view.kind = "cursor-history") =>
          \A i, j \in 1..Len(view.out) : view.out[i] = view.out[j] => i = j

(***************************************************************************)
(* C19 (as amended): a line yields a record if and only if it contains the *)
(* listening marker, has at least ten whitespace-separated fields,         *)
(* contains :<digits> immediately followed by the listening marker with    *)
(* digits that parse as an integer, and no earlier such line has the same  *)
(* port and processId; the record has command = field 1, processId =       *)
(* field 2, owningUser = field 3, address = field 9 and port = those       *)
(* digits; every other line is dropped and the remaining lines are still   *)
(* parsed.                                                                 *)
(***************************************************************************)
\* The fields of a line that end with :<digits> and are followed by the
\* listening marker
MarkedFields(line) ==
    {k \in 1..(Len(line) - 1) :
        /\ PortDigits(line[k]) # <<>>
        /\ line[k + 1] # <<>> /\ Head(line[k + 1]) = ListenMarker}

FirstMarkedDigits(line) ==
    PortDigits(line[CHOOSE k \in MarkedFields(line) :
                        \A m \in MarkedFields(line) : k <= m])

\* The three conditions of the claim on one line
WellShaped(line) ==
    /\ \E k \in 1..Len(line) : ListenMarker \in Range(line[k])
    /\ Len(line) >= 10
    /\ MarkedFields(line) # {} /\ Len(FirstMarkedDigits(line)) <= 18

RecordAsStated(line) ==
    [Port |-> DigitsValue(FirstMarkedDigits(line)), Command |-> line[1],
     PID |-> line[2], User |-> line[3], Address |-> line[9],
     Path |-> <<>>, Uptime |-> <<>>, UptimeSeconds |-> 0]

SameKeyEarlier(i) ==
    \E j \in 1..(i - 1) :
        /\ WellShaped(lsofOutput[j])
        /\ RecordAsStated(lsofOutput[j]).Port = RecordAsStated(lsofOutput[i]).Port
        /\ lsofOutput[j][2] = lsofOutput[i][2]

\* ports is made of the records of the lines of Y, in line order
RecordsOfLines(Y) ==
    /\ Len(ports) = Cardinality(Y)
    /\ \A i \in Y :
          ports[Cardinality({j \in Y : j <= i})] = RecordAsStated(lsofOutput[i])

Parsed == pc = "resolve" /\ idx = 1

C19_ParserFirstOfKey ==
    Parsed =>
        RecordsOfLines({i \in 1..Len(lsofOutput) :
                           WellShaped(lsofOutput[i]) /\ ~SameKeyEarlier(i)})

\* A listing of three lines: a record, a line that is dropped, and a line
\* after it that gives the second record
C19_Witness ==
    /\ Parsed /\ Len(lsofOutput) = 3 /\ Len(ports) = 2
    /\ ~WellShaped(lsofOutput[2])
    /\ ports[2] = RecordAsStated(lsofOutput[3])

\* C19 as stated: every line that meets the three conditions yields a record
C19_ParserEveryWellShapedLine ==
    Parsed => RecordsOfLines({i \in 1..Len(lsofOutput) : WellShaped(lsofOutput[i])})

(***************************************************************************)
(* C20: if the discovery ledger cannot be opened for writing, or a         *)
(* per-process metadata lookup fails, the run appends nothing (resp. puts  *)
(* "N/A" / 0 seconds for that process), still reaches the output stage and *)
(* emits the records it emits when the ledger is writable.                 *)
(***************************************************************************)
LedgerNotOpened == <<"ledger", <<>>>> \in degraded

\* The records a run in the default mode emits for given flags, whatever
\* happened to the ledger
EmittedFor(showAllPorts, hidden) ==
    {r \in Range(ports) :
        /\ showAllPorts \/ isUserPort(r)
        /\ PortPidKey(r) \notin hidden
        /\ r.Path # <<"/">>}

C20_DegradedNeverAborts ==
    /\ pc = "exit1" => degraded = {}
    /\ pc \in {"resolve", "done"} =>
          \A i \in 1..(idx - 1) :
              /\ <<"cwd", ports[i].PID>> \in degraded => ports[i].Path = NA
              /\ <<"uptime", ports[i].PID>> \in degraded =>
                    ports[i].Uptime = NA /\ ports[i].UptimeSeconds = 0
    /\ pc = "resolve" =>
          IF idx <= Len(ports) THEN ENABLED (ResolveCached \/ ResolveLookup)
          ELSE idx = Len(ports) + 1 /\ mode \in {"main", "unified"}
    /\ (pc = "done" /\ mode = "main") =>
          /\ output # None
          /\ \E showAllPorts \in BOOLEAN, hidden \in HiddenSets :
                Range(output.rows) = EmittedFor(showAllPorts, hidden)
          /\ LedgerNotOpened => portLog = <<>>

\* The ledger could not be opened and both lookups of a process failed;
\* the run emitted the record of a second process, which it would have
\* logged
C20_Witness ==
    /\ pc = "done" /\ mode = "main" /\ LedgerNotOpened
    /\ \E i \in 1..Len(ports) :
          {<<"cwd", ports[i].PID>>, <<"uptime", ports[i].PID>>} \subseteq degraded
    /\ \E k \in 1..Len(output.rows) :
          output.rows[k].Path = AppPath /\ output.rows[k].UptimeSeconds > 0

(***************************************************************************)
(* C22: the closed-workspace history lists its entries with the most       *)
(* recent close first: an emitted entry whose path the ledger records as   *)
(* closed is preceded only by entries recorded as closed, each with a      *)
(* close timestamp at least as great.  The close timestamp of a path is    *)
(* the timestamp of the close the reduction keeps for it; the folders      *)
(* supplemented from the editor's list have none and come last.            *)
(***************************************************************************)
\* The greatest timestamp among the events of q
GreatestTimestamp(events, q) ==
    LET mine == {events[i].Timestamp : i \in {k \in 1..Len(events) : events[k].Path = q}}
    IN  CHOOSE t \in mine : \A u \in mine : u <= t

C23_LastWriteWins ==
    view # None =>
        LET events == ViewEvents
            last == LastEvents(events)
        IN  /\ DOMAIN last = {events[i].Path : i \in 1..Len(events)}
            /\ \A q \in DOMAIN last :
                  /\ \E i \in 1..Len(events) : events[i] = last[q]
                  /\ last[q].Path = q
                  /\ last[q].Timestamp = GreatestTimestamp(events, q)
            /\ view.kind = "history" =>
                  \A i, j \in 1..Len(view.out) :
                      view.out[i].Type = "cursor" =>
                          /\ (view.out[j].Type = "cursor"
                                /\ view.out[j].Path = view.out[i].Path) => i = j
                          /\ view.out[i].Timestamp
                               = GreatestTimestamp(events, view.out[i].Path) * 1000

\* The combined history shows a path whose kept close stands in the file
\* before an older event of the same path and before a second close of the
\* same timestamp
C23_Witness ==
    /\ view # None /\ view.kind = "history"
    /\ \E n \in 1..Len(view.out), i, j, k \in 1..Len(ViewEvents) :
          /\ view.out[n].Type = "cursor"
          /\ i < j /\ i < k
          /\ ViewEvents[i].Path = view.out[n].Path
          /\ ViewEvents[j].Path = view.out[n].Path
          /\ ViewEvents[k].Path = view.out[n].Path
          /\ ViewEvents[i].Timestamp * 1000 = view.out[n].Timestamp
          /\ ViewEvents[j].Timestamp < ViewEvents[i].Timestamp
          /\ ViewEvents[k] = ViewEvents[i]

(***************************************************************************)
(* C27: history limit.  For every positive value of --limit both history   *)
(* views emit at most limit entries.  With a limit of zero or less the     *)
(* combined history is not cut at all and the closed-workspace history     *)
(* emits at most one entry.                                                *)
(***************************************************************************)
\* The entries the combined history has collected before it cuts the list
CollectedForHistory ==
    Len(view.claude) + Cardinality(CursorEntries(wsLog, view.canRead, view.open, view.exists))

C27_PositiveLimit ==
    view # None =>
        /\ view.limit > 0 => Len(view.out) <= view.limit
        /\ (view.limit <= 0 /\ view.kind = "cursor-history") => Len(view.out) <= 1
        /\ (view.limit <= 0 /\ view.kind = "history") => Len(view.out) = CollectedForHistory

\* The combined history collected more entries than the limit and emitted
\* limit of them; so did the closed-workspace history
C27_Witness ==
    /\ view # None /\ view.limit > 0 /\ Len(view.out) = view.limit
    /\ \/ view.kind = "history" /\ CollectedForHistory > view.limit
       \/ /\ view.kind = "cursor-history"
          /\ Cardinality({q \in WsPaths : KeepsClose(ViewEvents, q)}) > view.limit

\* The statement for every value of --limit, zero and negative included
C27_EveryLimit ==
    view # None => Len(view.out) <= view.limit

(***************************************************************************)
(* C24: per-run discovery logging.  The lines one run of logNewPorts       *)
(* appends to a ledger it can open are exactly one line per distinct       *)
(* (port, workingDirectory) key that occurs in the run's records, is not   *)
(* already in the ledger and whose workingDirectory is neither "N/A" nor   *)
(* "/": a key that occurs twice is appended once, for its first record,    *)
(* and the lines are in record order.  A run that cannot open the ledger   *)
(* appends nothing.                                                        *)
(***************************************************************************)
\* The lines the run of the view appended
AppendedLines == SubSeq(portLog, Len(view.before) + 1, Len(portLog))

\* The positions of the records that bring a new key: loggable path, key
\* not in the ledger found, no earlier record of the same key
NewKeyPositions ==
    {i \in 1..Len(view.list) :
        /\ view.list[i].Path # NA /\ view.list[i].Path # <<"/">>
        /\ ComboKey(view.list[i]) \notin LoadSeenCombos(view.before)
        /\ \A j \in 1..(i - 1) : ComboKey(view.list[j]) # ComboKey(view.list[i])}

\* The k-th of them
NewKeyPosition(k) ==
    CHOOSE i \in NewKeyPositions : Cardinality({j \in NewKeyPositions : j < i}) = k - 1

C24_OneLinePerNewKey ==
    (view # None /\ view.kind = "discovery-run") =>
        /\ IsPrefixOf(view.before, portLog)
        /\ ~view.canOpen => AppendedLines = <<>>
        /\ view.canOpen =>
              /\ Len(AppendedLines) = Cardinality(NewKeyPositions)
              /\ \A k \in 1..Len(AppendedLines) :
                    AppendedLines[k] = DiscoveryLine(view.at, view.list[NewKeyPosition(k)])

\* A run given two records of one new key and nothing else appended one line
C24_Witness ==
    /\ view # None /\ view.kind = "discovery-run" /\ view.canOpen
    /\ Len(view.list) = 2
    /\ ComboKey(view.list[1]) = ComboKey(view.list[2])
    /\ Len(AppendedLines) = 1

(***************************************************************************)
(* C25: inferred start time.  Every entry a run appends has startedAt =    *)
(* observation time - uptimeSeconds of its record: it never exceeds the    *)
(* observation time and equals it when uptimeSeconds is 0.                 *)
(***************************************************************************)
\* startedAt as written in a line of the ledger
StartedAtOf(line) == DigitsValue(Split(line, TAB)[1])

C25_InferredStart ==
    (view # None /\ view.kind = "discovery-run") =>
        \A k \in 1..Len(AppendedLines) :
            LET r == view.list[NewKeyPosition(k)]
            IN  /\ Split(AppendedLines[k], TAB)[1] = FormatTime(view.at - r.UptimeSeconds)
                /\ StartedAtOf(AppendedLines[k]) = view.at - r.UptimeSeconds
                /\ StartedAtOf(AppendedLines[k]) <= view.at
                /\ r.UptimeSeconds = 0 => StartedAtOf(AppendedLines[k]) = view.at

\* A run appended an entry started before the observation and an entry
\* started at it
C25_Witness ==
    /\ view # None /\ view.kind = "discovery-run" /\ Len(AppendedLines) = 2
    /\ StartedAtOf(AppendedLines[1]) < view.at
    /\ StartedAtOf(AppendedLines[2]) = view.at
    /\ view.at > 20000

(***************************************************************************)
(* C26: port range.  Every record the parser produces has a port in        *)
(* 1..65535 and uptimeSeconds that is not negative.                        *)
(***************************************************************************)
C26_PortRange ==
    Parsed =>
        \A i \in 1..Len(ports) :
            /\ ports[i].Port \in 1..65535
            /\ ports[i].UptimeSeconds >= 0

(***************************************************************************)
(* C28: reconciled output ordering.  In the unified result every workspace *)
(* item comes first, in ascending seconds since last active; the orphaned  *)
(* bucket is present if and only if at least one port matched no           *)
(* workspace, and it is the last item.                                     *)
(***************************************************************************)
\* A user port whose path no workspace item of the result prefixes
UnmatchedPorts(res) ==
    LET userPorts == UserPortsOf(uInput.ports)
    IN  {i \in 1..Len(userPorts) :
            \A k \in WorkspaceItems(res) :
                ~HasPrefix(userPorts[i].Path, res.items[k].WorkspacePath)}

C28_WorkspacesThenOrphans ==
    \A n \in 1..Len(uRuns) :
        uRuns[n].emitted =>
            LET items == uRuns[n].items
                buckets == {k \in 1..Len(items) : items[k].Type = "orphaned"}
            IN  /\ \A k \in 1..Len(items) : items[k].Type \in {"workspace", "orphaned"}
                /\ \A i, j \in WorkspaceItems(uRuns[n]) :
                      i < j => items[i].LastActive <= items[j].LastActive
                /\ buckets # {} <=> UnmatchedPorts(uRuns[n]) # {}
                /\ buckets \subseteq {Len(items)}

\* A result of two workspace items of different age followed by the bucket
C28_Witness ==
    \E n \in 1..Len(uRuns) :
        /\ uRuns[n].emitted /\ Len(uRuns[n].items) = 3
        /\ uRuns[n].items[1].LastActive < uRuns[n].items[2].LastActive
        /\ uRuns[n].items[3].Type = "orphaned"
        /\ uRuns[n].items[1].Ports # <<>>

(***************************************************************************)
(* C29: interactive cursor invariant.  Starting from a port list with      *)
(* unique (port, pid) keys, after any sequence of key events (up, down,    *)
(* hide, unhide all, toggle all, kill, open) the cursor is never negative, *)
(* is less than the number of visible ports when there is at least one,    *)
(* and is 0 when there is none.                                            *)
(***************************************************************************)
C29_CursorInRange ==
    ui # None =>
        /\ ui.cursor >= 0
        /\ Len(getVisiblePorts(ui)) >= 1 => ui.cursor < Len(getVisiblePorts(ui))
        /\ Len(getVisiblePorts(ui)) = 0 => ui.cursor = 0

\* The last visible port was selected and then hidden: the cursor moved up
\* to the new last one
C29_Witness ==
    /\ ui # None /\ ui.message.kind = "hidden"
    /\ Len(getVisiblePorts(ui)) = 2 /\ ui.cursor = 1
    /\ Len(ui.ports) = 3

(***************************************************************************)
(* C30: interactive kill.  When the kill fails, the port list, the hidden  *)
(* set and the cursor are unchanged and only the message changes; when it  *)
(* succeeds, exactly the records with the selected (port, pid) are removed *)
(* and the others keep their relative order.                               *)
(***************************************************************************)
\* list without its records of the key, the others in their order
WithoutKey(list, key) ==
    LET kept == {i \in 1..Len(list) : PortPidKey(list[i]) # key}
        nth(k) == CHOOSE i \in kept : Cardinality({j \in kept : j < i}) = k - 1
    IN  [k \in 1..Cardinality(kept) |-> list[nth(k)]]

C30_KillOutcome ==
    [][(KeyKill /\ HasSelection(ui)) =>
          /\ ui'.message.kind \in {"kill-failed", "killed"}
          /\ ui'.message.kind = "kill-failed" =>
                /\ ui'.ports = ui.ports /\ ui'.hidden = ui.hidden
                /\ ui'.cursor = ui.cursor /\ ui'.showAll = ui.showAll
                /\ configFile' = configFile
          /\ ui'.message.kind = "killed" =>
                /\ ui'.ports = WithoutKey(ui.ports, PortPidKey(Selected(ui)))
                /\ Len(ui'.ports) = Len(ui.ports) - 1
                /\ ui'.hidden = ui.hidden /\ configFile' = configFile]_vars

\* A kill succeeded on the second of three records: the other two remain
C30_Witness ==
    /\ ui # None /\ ui.message.kind = "killed" /\ Len(ui.ports) = 2
    /\ \A i \in 1..2 : PortPidKey(ui.ports[i]) # <<ui.message.port, ui.message.pid>>
    /\ \E r \in UiRecords : r.Port = ui.message.port /\ r.PID # ui.message.pid
                               /\ r \in Range(ui.ports)

(***************************************************************************)
(* C21: hidden ports persist.  Once a (port, pid) pair has been hidden     *)
(* with h, it is excluded from the interactive list, from the              *)
(* non-interactive output and from discovery logging, in that session and  *)
(* in every later run, until u; after u no pair is hidden.                 *)
(***************************************************************************)
\* The (port, pid) pairs a run printed
EmittedKeys ==
    IF view.kind = "unified"
    THEN UNION {{<<p.Port, p.PID>> : p \in Range(view.out[k].Ports)} :
                   k \in 1..Len(view.out)}
    ELSE {PortPidKey(r) : r \in Range(view.out)}

\* The (port, pid) pairs a run wrote to the discovery ledger
LoggedKeys == {<<e.Port, e.PID>> : e \in Range(view.logged)}

C21_HiddenPersist ==
    /\ ui # None =>
          /\ \A r \in Range(getVisiblePorts(ui)) : PortPidKey(r) \notin hiddenSince
          /\ hiddenSince = {} => ui.hidden = {}
    /\ view # None =>
          \A key \in view.asked : key \notin EmittedKeys /\ key \notin LoggedKeys
    /\ hiddenSince = {} => configFile = {}

====
